---------------------------- MODULE Spec2Model ----------------------------
(***************************************************************************)
(* A model of the request/response layer of node-grocy (src/index.mjs):    *)
(* the string validators, the Grocy constructor and setApiKey, the generic *)
(* dispatcher request() with its response normalisation, and uploadFile(). *)
(*                                                                         *)
(* JavaScript strings are TLA+ strings; every other JavaScript value is a  *)
(* tagged record (see JsValue below).  An asynchronous method is a small   *)
(* state machine whose positions are its await points.                     *)
(***************************************************************************)
EXTENDS Integers, Sequences, FiniteSets, TLC

VARIABLES
    ctorArgs,   \* the arguments the constructor was called with
    ctorError,  \* "" or the message of the error the constructor threw
    client,     \* the Grocy instance: exists, baseUrl, apiKey
    calls       \* per call slot: one invocation of request() / uploadFile()

vars == <<ctorArgs, ctorError, client, calls>>

(***************************************************************************)
(* Bounds of the model.                                                    *)
(***************************************************************************)
\* longest array used as a query-parameter value
MaxArrayLen == 2

(***************************************************************************)
(* JavaScript values.  t is the type tag, s the text of a string, n the    *)
(* value of a number (or 1/0 for a boolean), a the elements of an array or *)
(* the entries (records k, v in Object.entries order) of an object.  A     *)
(* number whose s is "" is the integer n; the other numbers are Milli(m),  *)
(* the non-integer m/1000, NaN, Infinity and NegInfinity.                  *)
(***************************************************************************)
JsValue(t, s, n, a) == [t |-> t, s |-> s, n |-> n, a |-> a]
Undef == JsValue("undefined", "", 0, <<>>)
Null == JsValue("null", "", 0, <<>>)
Str(s) == JsValue("string", s, 0, <<>>)
Num(n) == JsValue("number", "", n, <<>>)
Milli(m) == JsValue("number", "milli", m, <<>>)
NaN == JsValue("number", "NaN", 0, <<>>)
Infinity == JsValue("number", "Infinity", 1, <<>>)
NegInfinity == JsValue("number", "Infinity", -1, <<>>)
Bool(b) == JsValue("boolean", "", IF b THEN 1 ELSE 0, <<>>)
\* a Date object: the text toISOString() gives, and whether its time value is a number
DateObject(iso, valid) == JsValue("date", iso, IF valid THEN 1 ELSE 0, <<>>)
Arr(a) == JsValue("array", "", 0, a)
Obj(o) == JsValue("object", "", 0, o)
Entry(k, v) == [k |-> k, v |-> v]

\* typeof value === 'string'
IsString(v) == v.t = "string"

\* value === null || value === undefined
IsNullish(v) == v.t \in {"null", "undefined"}

\* ToBoolean(value), as used by !value, value && ..., a || b
Truthy(v) ==
    CASE v.t \in {"undefined", "null"} -> FALSE
      [] v.t = "string" -> v.s # ""
      [] v.t \in {"number", "boolean"} -> v.n # 0
      [] OTHER -> TRUE

\* typeof value === 'number'
IsNumber(v) == v.t = "number"

\* isNaN(value) for a number
IsNaN(v) == v.t = "number" /\ v.s = "NaN"

\* Number.isFinite(value)
IsFiniteNumber(v) == v.t = "number" /\ v.s \in {"", "milli"}

\* Number.isInteger(value)
IsInteger(v) == v.t = "number" /\ v.s = ""

\* a finite number in thousandths
Thousandths(v) == IF v.s = "milli" THEN v.n ELSE v.n * 1000

\* a < b on numbers: every comparison with NaN is false
NumLess(a, b) ==
    CASE IsNaN(a) \/ IsNaN(b) -> FALSE
      [] ~IsFiniteNumber(a) /\ ~IsFiniteNumber(b) -> a.n < b.n
      [] ~IsFiniteNumber(a) -> a.n < 0
      [] ~IsFiniteNumber(b) -> b.n > 0
      [] OTHER -> Thousandths(a) < Thousandths(b)

(***************************************************************************)
(* String primitives.                                                      *)
(***************************************************************************)
CharAt(s, i) == SubSeq(s, i, i)

RECURSIVE Repeat(_, _)
Repeat(s, n) ==
    IF n <= 0 THEN ""
    ELSE LET half == Repeat(s, n \div 2) IN
         IF n % 2 = 0 THEN half \o half ELSE half \o half \o s

\* the characters String.prototype.trim removes
IsWhitespace(ch) == ch \in {" ", "\t", "\n", "\r"}

RECURSIVE TrimStart(_)
TrimStart(s) ==
    IF Len(s) > 0 /\ IsWhitespace(CharAt(s, 1)) THEN TrimStart(Tail(s)) ELSE s

RECURSIVE TrimEnd(_)
TrimEnd(s) ==
    IF Len(s) > 0 /\ IsWhitespace(CharAt(s, Len(s)))
    THEN TrimEnd(SubSeq(s, 1, Len(s) - 1))
    ELSE s

\* String.prototype.trim
Trim(s) == TrimEnd(TrimStart(s))

\* String.prototype.endsWith
EndsWith(s, suffix) ==
    /\ Len(suffix) <= Len(s)
    /\ SubSeq(s, Len(s) - Len(suffix) + 1, Len(s)) = suffix

\* String.prototype.startsWith
StartsWith(s, prefix) ==
    /\ Len(prefix) <= Len(s)
    /\ SubSeq(s, 1, Len(prefix)) = prefix

\* String.prototype.includes
Includes(s, sub) ==
    \E i \in 1..(Len(s) - Len(sub) + 1) : SubSeq(s, i, i + Len(sub) - 1) = sub

AsciiAlpha ==
    {"a", "b", "c", "d", "e", "f", "g", "h", "i", "j", "k", "l", "m",
     "n", "o", "p", "q", "r", "s", "t", "u", "v", "w", "x", "y", "z",
     "A", "B", "C", "D", "E", "F", "G", "H", "I", "J", "K", "L", "M",
     "N", "O", "P", "Q", "R", "S", "T", "U", "V", "W", "X", "Y", "Z"}

AsciiDigit == {"0", "1", "2", "3", "4", "5", "6", "7", "8", "9"}

\* the decimals of a number of thousandths, without trailing zeros
RECURSIVE StripZeros(_)
StripZeros(digits) ==
    IF Len(digits) > 0 /\ CharAt(digits, Len(digits)) = "0"
    THEN StripZeros(SubSeq(digits, 1, Len(digits) - 1))
    ELSE digits

\* Number.prototype.toString for the numbers of the model
NumberText(v) ==
    CASE v.s = "NaN" -> "NaN"
      [] v.s = "Infinity" -> IF v.n > 0 THEN "Infinity" ELSE "-Infinity"
      [] v.s = "milli" ->
           LET abs == IF v.n < 0 THEN 0 - v.n ELSE v.n
               decimals == abs % 1000
               padded == (IF decimals < 10 THEN "00"
                          ELSE IF decimals < 100 THEN "0" ELSE "")
                         \o ToString(decimals)
           IN  (IF v.n < 0 THEN "-" ELSE "") \o ToString(abs \div 1000)
               \o "." \o StripZeros(padded)
      [] OTHER -> ToString(v.n)

\* validator.escape: the HTML-special characters become entities (the grave
\* accent, which it also replaces, cannot be written in a TLA+ string and is
\* not used by the model)
EscapeChar(ch) ==
    CASE ch = "&" -> "&amp;"
      [] ch = "\"" -> "&quot;"
      [] ch = "'" -> "&#x27;"
      [] ch = "<" -> "&lt;"
      [] ch = ">" -> "&gt;"
      [] ch = "/" -> "&#x2F;"
      [] ch = "\\" -> "&#x5C;"
      [] OTHER -> ch

RECURSIVE Escape(_)
Escape(s) ==
    IF s = "" THEN ""
    ELSE IF Len(s) = 1 THEN EscapeChar(s)
    ELSE LET half == Len(s) \div 2 IN
         Escape(SubSeq(s, 1, half)) \o Escape(SubSeq(s, half + 1, Len(s)))

(***************************************************************************)
(* Validators.  A validator either returns a value or throws; the result   *)
(* is a record: ok, the returned value v, or the message err of the error. *)
(***************************************************************************)
Returned(v) == [ok |-> TRUE, v |-> v, err |-> ""]
Thrown(msg) == [ok |-> FALSE, v |-> Undef, err |-> msg]

\* the default of options.maxLength
DefaultMaxLength == 255

\* options.minLength left out (undefined)
NoMinLength == -1

StringOptions(required, maxLength, minLength, sanitize) ==
    [required |-> required, maxLength |-> maxLength,
     minLength |-> minLength, sanitize |-> sanitize]

\* validateString as it would be if the sanitize option were ignored
validateStringAlwaysEscaping(value, fieldName, options) ==
    IF ~IsNullish(value) /\ ~IsString(value)
    THEN Thrown(fieldName \o " must be a string")
    ELSE IF options.required /\ (~Truthy(value) \/ Trim(value.s) = "")
    THEN Thrown(fieldName \o " is required and must be non-empty")
    ELSE IF ~options.required /\ ~Truthy(value)
    THEN Returned(Str(""))
    ELSE LET trimmedLength == Len(Trim(value.s)) IN
         IF options.minLength # NoMinLength /\ trimmedLength < options.minLength
         THEN Thrown(fieldName \o " must be at least "
                     \o ToString(options.minLength) \o " characters")
         ELSE IF trimmedLength > options.maxLength
         THEN Thrown(fieldName \o " must not exceed "
                     \o ToString(options.maxLength) \o " characters")
         ELSE Returned(Str(Escape(value.s)))

validateString(value, fieldName, options) ==
    IF ~IsNullish(value) /\ ~IsString(value)
    THEN Thrown(fieldName \o " must be a string")
    ELSE IF options.required /\ (~Truthy(value) \/ Trim(value.s) = "")
    THEN Thrown(fieldName \o " is required and must be non-empty")
    ELSE IF ~options.required /\ ~Truthy(value)
    THEN Returned(Str(""))
    ELSE LET trimmedLength == Len(Trim(value.s)) IN
         IF options.minLength # NoMinLength /\ trimmedLength < options.minLength
         THEN Thrown(fieldName \o " must be at least "
                     \o ToString(options.minLength) \o " characters")
         ELSE IF trimmedLength > options.maxLength
         THEN Thrown(fieldName \o " must not exceed "
                     \o ToString(options.maxLength) \o " characters")
         ELSE Returned(IF options.sanitize THEN Str(Escape(value.s)) ELSE value)

validateOptionalString(value, fieldName, options) ==
    IF IsNullish(value)
    THEN Returned(Null)
    ELSE validateString(value, fieldName, [options EXCEPT !.required = FALSE])

\* validateId as it would be if zero were let through
validateIdAllowingZero(value, fieldName) ==
    IF ~IsInteger(value) \/ NumLess(value, Num(0))
    THEN Thrown(fieldName \o " must be a positive integer")
    ELSE Returned(value)

validateId(value, fieldName) ==
    IF ~IsInteger(value) \/ ~NumLess(Num(0), value)
    THEN Thrown(fieldName \o " must be a positive integer")
    ELSE Returned(value)

\* the options of validateNumber: min and max, each a number or undefined
NumberOptions(min, max) == [min |-> min, max |-> max]

validateNumber(value, fieldName, options) ==
    LET min == IF options.min.t = "undefined" THEN Num(0) ELSE options.min
        max == options.max
    IN  IF ~IsNumber(value) \/ IsNaN(value)
        THEN Thrown(fieldName \o " must be a valid number")
        ELSE IF NumLess(value, min)
        THEN Thrown(fieldName \o " must be at least " \o NumberText(min))
        ELSE IF max.t # "undefined" /\ NumLess(max, value)
        THEN Thrown(fieldName \o " must be at most " \o NumberText(max))
        ELSE Returned(value)

\* new Date(value).getTime() is a number: the model parses the date-only ISO
\* form YYYY-MM-DD and takes every other string as unparsable
IsDigits(s) == \A i \in 1..Len(s) : CharAt(s, i) \in AsciiDigit

\* !isNaN(new Date(s).getTime()) for the strings of the ECMAScript date-time
\* format: YYYY-MM-DD, alone or followed by THH:mm:ss, then .sss, then Z
DateParses(s) ==
    LET TwoDigits(t, max) ==
            /\ Len(t) = 2 /\ IsDigits(t)
            /\ \/ CharAt(t, 1) \in AsciiDigit \ {"6", "7", "8", "9"} /\ max = "59"
               \/ CharAt(t, 1) \in {"0", "1"} /\ max = "23"
               \/ CharAt(t, 1) = "2" /\ CharAt(t, 2) \in {"0", "1", "2", "3"} /\ max = "23"
        IsoDate(d) ==
            /\ Len(d) = 10
            /\ IsDigits(SubSeq(d, 1, 4)) /\ CharAt(d, 5) = "-"
            /\ SubSeq(d, 6, 7) \in {"01", "02", "03", "04", "05", "06",
                                    "07", "08", "09", "10", "11", "12"}
            /\ CharAt(d, 8) = "-"
            /\ IsDigits(SubSeq(d, 9, 10))
            /\ SubSeq(d, 9, 10) # "00"
            /\ CharAt(d, 9) \in {"0", "1", "2", "3"}
            /\ CharAt(d, 9) = "3" => CharAt(d, 10) \in {"0", "1"}
        IsoTime(t) ==
            /\ Len(t) >= 9
            /\ CharAt(t, 1) = "T"
            /\ TwoDigits(SubSeq(t, 2, 3), "23") /\ CharAt(t, 4) = ":"
            /\ TwoDigits(SubSeq(t, 5, 6), "59") /\ CharAt(t, 7) = ":"
            /\ TwoDigits(SubSeq(t, 8, 9), "59")
            /\ LET rest == SubSeq(t, 10, Len(t))
                   zone == IF Len(rest) >= 4 /\ CharAt(rest, 1) = "."
                           THEN SubSeq(rest, 5, Len(rest)) ELSE rest
               IN /\ Len(rest) >= 4 /\ CharAt(rest, 1) = "."
                     => IsDigits(SubSeq(rest, 2, 4))
                  /\ zone \in {"", "Z"}
    IN /\ Len(s) >= 10
       /\ IsoDate(SubSeq(s, 1, 10))
       /\ Len(s) > 10 => IsoTime(SubSeq(s, 11, Len(s)))

validateDateTypeFirst(value, fieldName) ==
    IF value.t = "date"
    THEN IF value.n = 1 THEN Returned(Str(value.s)) ELSE Thrown("Invalid time value")
    ELSE IF IsString(value)
    THEN IF ~DateParses(value.s)
         THEN Thrown(fieldName \o " is not a valid date")
         ELSE Returned(value)
    ELSE Thrown(fieldName \o " must be a Date object or date string")

validateDate(value, fieldName) ==
    IF ~Truthy(value)
    THEN Thrown(fieldName \o " is required")
    ELSE IF value.t = "date"
    THEN IF value.n = 1 THEN Returned(Str(value.s)) ELSE Thrown("Invalid time value")
    ELSE IF IsString(value)
    THEN IF ~DateParses(value.s)
         THEN Thrown(fieldName \o " is not a valid date")
         ELSE Returned(value)
    ELSE Thrown(fieldName \o " must be a Date object or date string")

validateOptionalId(value, fieldName) ==
    IF IsNullish(value) THEN Returned(Null) ELSE validateId(value, fieldName)

validateOptionalNumber(value, fieldName, options) ==
    IF IsNullish(value) THEN Returned(Null)
    ELSE validateNumber(value, fieldName, options)

validateOptionalDate(value, fieldName) ==
    IF IsNullish(value) \/ value = Str("")
    THEN Returned(Null)
    ELSE validateDate(value, fieldName)

validateBoolean(value, fieldName) ==
    IF value.t # "boolean"
    THEN Thrown(fieldName \o " must be a boolean")
    ELSE Returned(value)

\* itemValidator(item, label), for the item validators of the model:
\* "validateId" is validateId itself, which names the label it is given;
\* "productId" is (id) => validateId(id, 'Product ID'), which ignores it
ItemValidator(itemValidator, item, label) ==
    IF itemValidator = "validateId" THEN validateId(item, label)
    ELSE validateId(item, "Product ID")

\* validateArray as it would be if map went on and the last failure won
validateArrayLastFailure(value, fieldName, options) ==
    IF (options.required \/ Truthy(value)) /\ value.t # "array"
    THEN Thrown(fieldName \o " must be an array")
    ELSE IF value.t # "array" THEN Returned(Arr(<<>>))
    ELSE IF options.itemValidator = "" THEN Returned(Arr(value.a))
    ELSE LET validatedItems ==
                 [i \in 1..Len(value.a) |->
                     ItemValidator(options.itemValidator, value.a[i],
                                   fieldName \o "[" \o ToString(i - 1) \o "]")]
             thrown == {i \in 1..Len(value.a) : ~validatedItems[i].ok}
         IN  IF thrown # {}
             THEN validatedItems[CHOOSE i \in thrown : \A j \in thrown : j <= i]
             ELSE Returned(Arr([i \in 1..Len(value.a) |-> validatedItems[i].v]))

\* options is the record of required and itemValidator; itemValidator is ""
\* when none is given.  value.map calls the item validator in index order
\* and the first one that throws ends the call.
validateArray(value, fieldName, options) ==
    IF options.required /\ value.t # "array"
    THEN Thrown(fieldName \o " must be an array")
    ELSE IF ~options.required /\ ~Truthy(value)
    THEN Returned(Arr(<<>>))
    ELSE IF value.t # "array"
    THEN Thrown(fieldName \o " must be an array")
    ELSE IF options.itemValidator # ""
    THEN LET validatedItems ==
                 [i \in 1..Len(value.a) |->
                     ItemValidator(options.itemValidator, value.a[i],
                                   fieldName \o "[" \o ToString(i - 1) \o "]")]
             thrown == {i \in 1..Len(value.a) : ~validatedItems[i].ok}
         IN  IF thrown # {}
             THEN validatedItems[CHOOSE i \in thrown : \A j \in thrown : i <= j]
             ELSE Returned(Arr([i \in 1..Len(value.a) |-> validatedItems[i].v]))
    ELSE Returned(Arr(value.a))

(***************************************************************************)
(* The client: constructor and setApiKey.                                  *)
(***************************************************************************)
NoClient == [exists |-> FALSE, baseUrl |-> "", apiKey |-> Null]

\* this.baseUrl as it would be if the validated argument were stored as it is
NormalizeBaseUrlNeverAppend(validatedBaseUrl) == validatedBaseUrl

\* this.baseUrl as it would be if the suffix were appended without the test
NormalizeBaseUrlAlwaysAppend(validatedBaseUrl) == validatedBaseUrl \o "/api"

\* this.baseUrl of the constructor
NormalizeBaseUrl(validatedBaseUrl) ==
    IF EndsWith(validatedBaseUrl, "/api")
    THEN validatedBaseUrl
    ELSE validatedBaseUrl \o "/api"

\* this.apiKey as it would be if the validated value were stored as it is
StoredApiKeyAsValidated(validatedApiKey) == validatedApiKey

\* this.apiKey = validatedApiKey ? validatedApiKey : null
StoredApiKey(validatedApiKey) ==
    IF Truthy(validatedApiKey) THEN validatedApiKey ELSE Null

\* the constructor as it would be if the credential were validated first
ConstructorKeyFirst(baseUrl, apiKey) ==
    LET key == IF apiKey.t = "undefined" THEN Null ELSE apiKey
        validatedBaseUrl ==
            validateString(baseUrl, "Base URL",
                           StringOptions(TRUE, DefaultMaxLength, 1, FALSE))
        validatedApiKey ==
            validateOptionalString(key, "API key",
                           StringOptions(TRUE, DefaultMaxLength, 1, FALSE))
    IN  IF ~validatedApiKey.ok
        THEN [error |-> validatedApiKey.err, client |-> NoClient]
        ELSE IF ~validatedBaseUrl.ok
        THEN [error |-> validatedBaseUrl.err, client |-> NoClient]
        ELSE [error |-> "",
              client |-> [exists |-> TRUE,
                          baseUrl |-> NormalizeBaseUrl(validatedBaseUrl.v.s),
                          apiKey |-> StoredApiKey(validatedApiKey.v)]]

\* new Grocy(baseUrl, apiKey): the instance, or the error thrown
Constructor(baseUrl, apiKey) ==
    LET key == IF apiKey.t = "undefined" THEN Null ELSE apiKey
        validatedBaseUrl ==
            validateString(baseUrl, "Base URL",
                           StringOptions(TRUE, DefaultMaxLength, 1, FALSE))
        validatedApiKey ==
            validateOptionalString(key, "API key",
                           StringOptions(TRUE, DefaultMaxLength, 1, FALSE))
    IN  IF ~validatedBaseUrl.ok
        THEN [error |-> validatedBaseUrl.err, client |-> NoClient]
        ELSE IF ~validatedApiKey.ok
        THEN [error |-> validatedApiKey.err, client |-> NoClient]
        ELSE [error |-> "",
              client |-> [exists |-> TRUE,
                          baseUrl |-> NormalizeBaseUrl(validatedBaseUrl.v.s),
                          apiKey |-> StoredApiKey(validatedApiKey.v)]]

(***************************************************************************)
(* URL and URLSearchParams.  A URL object is the string it was parsed from *)
(* and the list of name/value pairs appended to its searchParams.  The     *)
(* strings parsed here carry no query and no fragment of their own.        *)
(***************************************************************************)
\* the URL parser's scheme state: alpha (alpha | digit | + | - | .)* ':'
RECURSIVE SchemeFrom(_, _)
SchemeFrom(s, i) ==
    IF i > Len(s) THEN FALSE
    ELSE IF CharAt(s, i) = ":" THEN TRUE
    ELSE IF CharAt(s, i) \in AsciiAlpha \cup AsciiDigit \cup {"+", "-", "."}
    THEN SchemeFrom(s, i + 1)
    ELSE FALSE

HasScheme(s) ==
    LET t == Trim(s) IN
    /\ Len(t) > 0
    /\ CharAt(t, 1) \in AsciiAlpha
    /\ SchemeFrom(t, 2)

\* new URL(input) without a base: a string without a scheme is a TypeError
NewUrl(input) ==
    IF HasScheme(input)
    THEN [ok |-> TRUE, err |-> "", href |-> input, searchParams |-> <<>>]
    ELSE [ok |-> FALSE, err |-> "Invalid URL", href |-> "", searchParams |-> <<>>]

RECURSIVE JoinStrings(_, _)
JoinStrings(parts, sep) ==
    IF Len(parts) = 0 THEN ""
    ELSE IF Len(parts) = 1 THEN parts[1]
    ELSE parts[1] \o sep \o JoinStrings(Tail(parts), sep)

\* String(v) / v.toString()
RECURSIVE ToStringJs(_)
ToStringJs(v) ==
    CASE v.t = "undefined" -> "undefined"
      [] v.t = "null" -> "null"
      [] v.t = "string" -> v.s
      [] v.t = "number" -> NumberText(v)
      [] v.t = "boolean" -> IF v.n = 1 THEN "true" ELSE "false"
      [] v.t = "array" ->
           JoinStrings([i \in 1..Len(v.a) |->
                           IF IsNullish(v.a[i]) THEN "" ELSE ToStringJs(v.a[i])],
                       ",")
      [] OTHER -> "[object Object]"

\* Object.entries(value)
ObjectEntries(v) ==
    CASE v.t = "object" -> v.a
      [] v.t = "array" -> [i \in 1..Len(v.a) |-> Entry(ToString(i - 1), v.a[i])]
      [] v.t = "string" ->
           [i \in 1..Len(v.s) |-> Entry(ToString(i - 1), Str(CharAt(v.s, i)))]
      [] OTHER -> <<>>

\* the pairs of an entry as they would be if an array were appended like a scalar
QueryPairsArrayAsScalar(key, value) ==
    IF value.t # "undefined" /\ value.t # "null"
    THEN <<Entry(key, ToStringJs(value))>>
    ELSE <<>>

\* the pairs one entry of queryParams appends to url.searchParams
QueryPairs(key, value) ==
    IF value.t = "array"
    THEN [i \in 1..Len(value.a) |-> Entry(key \o "[]", ToStringJs(value.a[i]))]
    ELSE IF value.t # "undefined" /\ value.t # "null"
    THEN <<Entry(key, ToStringJs(value))>>
    ELSE <<>>

RECURSIVE AppendQuery(_, _)
AppendQuery(searchParams, entries) ==
    IF Len(entries) = 0 THEN searchParams
    ELSE AppendQuery(searchParams \o QueryPairs(entries[1].k, entries[1].v),
                     Tail(entries))

\* the query-parameter block of request()
WithQueryParams(url, queryParams) ==
    IF Truthy(queryParams) /\ Len(ObjectEntries(queryParams)) > 0
    THEN [url EXCEPT !.searchParams = AppendQuery(@, ObjectEntries(queryParams))]
    ELSE url

\* the application/x-www-form-urlencoded byte serializer
FormEncodeChar(ch) ==
    CASE ch = " " -> "+"
      [] ch = "[" -> "%5B"
      [] ch = "]" -> "%5D"
      [] ch = "," -> "%2C"
      [] ch = "/" -> "%2F"
      [] ch = ":" -> "%3A"
      [] ch = "&" -> "%26"
      [] ch = "=" -> "%3D"
      [] ch = "?" -> "%3F"
      [] ch = "#" -> "%23"
      [] OTHER -> ch

RECURSIVE FormEncode(_)
FormEncode(s) ==
    IF s = "" THEN "" ELSE FormEncodeChar(CharAt(s, 1)) \o FormEncode(Tail(s))

\* url.toString(): the parsed string, then '?' and the serialized pairs
Href(url) ==
    IF Len(url.searchParams) = 0 THEN url.href
    ELSE url.href \o "?"
         \o JoinStrings([i \in 1..Len(url.searchParams) |->
                            FormEncode(url.searchParams[i].k) \o "="
                            \o FormEncode(url.searchParams[i].v)],
                        "&")

(***************************************************************************)
(* JSON.stringify.                                                         *)
(***************************************************************************)
JsonQuoteChar(ch) ==
    CASE ch = "\"" -> "\\\""
      [] ch = "\\" -> "\\\\"
      [] OTHER -> ch

RECURSIVE JsonQuoteBody(_)
JsonQuoteBody(s) ==
    IF s = "" THEN "" ELSE JsonQuoteChar(CharAt(s, 1)) \o JsonQuoteBody(Tail(s))

JsonQuote(s) == "\"" \o JsonQuoteBody(s) \o "\""

\* the entries JSON.stringify keeps: a property whose value is undefined is dropped
RECURSIVE DefinedEntries(_)
DefinedEntries(entries) ==
    IF Len(entries) = 0 THEN <<>>
    ELSE IF entries[1].v.t = "undefined" THEN DefinedEntries(Tail(entries))
    ELSE <<entries[1]>> \o DefinedEntries(Tail(entries))

RECURSIVE JsonStringify(_)
JsonStringify(v) ==
    CASE v.t = "string" -> JsonQuote(v.s)
      [] v.t = "number" -> IF IsFiniteNumber(v) THEN NumberText(v) ELSE "null"
      [] v.t = "boolean" -> IF v.n = 1 THEN "true" ELSE "false"
      [] v.t = "date" -> IF v.n = 1 THEN JsonQuote(v.s) ELSE "null"
      [] v.t = "array" ->
           "[" \o JoinStrings([i \in 1..Len(v.a) |->
                                  IF v.a[i].t = "undefined" THEN "null"
                                  ELSE JsonStringify(v.a[i])], ",") \o "]"
      [] v.t = "object" ->
           LET kept == DefinedEntries(v.a) IN
           "{" \o JoinStrings([i \in 1..Len(kept) |->
                                  JsonQuote(kept[i].k) \o ":"
                                  \o JsonStringify(kept[i].v)], ",") \o "}"
      [] OTHER -> "null"

(***************************************************************************)
(* Calls.  A call slot holds one invocation of request() or uploadFile():  *)
(* its arguments, the transport invocations it made (fetched), the         *)
(* transport response, how often it invoked a body reader, what the body   *)
(* reader gave (read), and its outcome.  pc is the await point the         *)
(* invocation is suspended at.                                             *)
(***************************************************************************)
Pending == [tag |-> "pending", value |-> Undef, message |-> ""]
Return(v) == [tag |-> "return", value |-> v, message |-> ""]
Throw(msg) == [tag |-> "throw", value |-> Undef, message |-> msg]

NoResponse == [status |-> 0, contentType |-> Null]

\* what the awaited body reader gave: nothing yet, the parsed JSON value, the
\* text, or the message of the error it rejected with
NoRead == [tag |-> "none", value |-> Undef, message |-> ""]
JsonRead(jsonData) == [tag |-> "json", value |-> jsonData, message |-> ""]
TextRead(textData) == [tag |-> "text", value |-> Str(textData), message |-> ""]
ReadError(message) == [tag |-> "error", value |-> Undef, message |-> message]

IdleCall ==
    [kind |-> "none", pc |-> "idle", args |-> <<>>, fetched |-> <<>>,
     response |-> NoResponse, jsonReads |-> 0, textReads |-> 0,
     read |-> NoRead, outcome |-> Pending]

\* response.ok
ResponseOk(response) == response.status >= 200 /\ response.status <= 299

\* the transport response object, as a value handed to the caller
ResponseValue(response) ==
    JsValue("response", "", response.status, <<response.contentType>>)

\* { success: true }
SuccessMarker == Obj(<<Entry("success", Bool(TRUE))>>)

\* { success: true, response }
OpaqueMarker(response) ==
    Obj(<<Entry("success", Bool(TRUE)), Entry("response", ResponseValue(response))>>)

\* { calendar: textData }
CalendarWrapper(textData) == Obj(<<Entry("calendar", Str(textData))>>)

ApiKeyRequired == "API key is required. Use setApiKey() to set it."

FailurePrefix == "Grocy API request failed: "

\* the catch block: throw new Error(`Grocy API request failed: ${error.message}`)
Wrapped(message) == FailurePrefix \o message

HttpError(status) == "HTTP error! status: " \o ToString(status)

\* value[name] for an own property; reading a property of null or undefined
\* is a TypeError
HasProperties(v) == ~IsNullish(v)

RECURSIVE EntryValue(_, _)
EntryValue(entries, name) ==
    IF Len(entries) = 0 THEN Undef
    ELSE IF entries[1].k = name THEN entries[1].v
    ELSE EntryValue(Tail(entries), name)

GetProperty(v, name) == IF v.t = "object" THEN EntryValue(v.a, name) ELSE Undef

PropertyTypeError(v, name) ==
    "Cannot read properties of " \o v.t \o " (reading '" \o name \o "')"

\* jsonData.error_message || `HTTP error! status: ${response.status}`; the
\* thrown error is caught and wrapped
ErrorBodyFailure(jsonData, response) ==
    IF ~HasProperties(jsonData)
    THEN Throw(Wrapped(PropertyTypeError(jsonData, "error_message")))
    ELSE LET errorMessage == GetProperty(jsonData, "error_message") IN
         IF Truthy(errorMessage)
         THEN Throw(Wrapped(ToStringJs(errorMessage)))
         ELSE Throw(Wrapped(HttpError(response.status)))

\* the options of request() as they would be if the method were not tested
RequestOptionsAnyMethod(apiKey, method, data) ==
    LET withBody == Truthy(data) IN
    [method |-> method,
     headers |-> <<Entry("GROCY-API-KEY", apiKey),
                   Entry("Content-Type", Str("application/json"))>>,
     hasBody |-> withBody,
     body |-> IF withBody THEN Str(JsonStringify(data)) ELSE Undef]

\* the options object request() passes to fetch
RequestOptions(apiKey, method, data) ==
    LET withBody == Truthy(data) /\ (method = "POST" \/ method = "PUT") IN
    [method |-> method,
     headers |-> <<Entry("GROCY-API-KEY", apiKey),
                   Entry("Content-Type", Str("application/json"))>>,
     hasBody |-> withBody,
     body |-> IF withBody THEN Str(JsonStringify(data)) ELSE Undef]

\* the options object uploadFile() passes to fetch
UploadOptions(apiKey, fileData) ==
    [method |-> "PUT",
     headers |-> <<Entry("GROCY-API-KEY", apiKey)>>,
     hasBody |-> TRUE,
     body |-> fileData]

Failed(call, message) == [call EXCEPT !.pc = "done", !.outcome = Throw(message)]

\* an awaited body reader rejected: the catch block wraps its message
ReadFailed(call, message) ==
    Failed([call EXCEPT !.read = ReadError(message)], Wrapped(message))

Succeeded(call, value) == [call EXCEPT !.pc = "done", !.outcome = Return(value)]

\* await fetch(url, options): the transport is invoked, the call suspends
Fetching(call, url, options) ==
    [call EXCEPT !.pc = "awaitFetch",
                 !.fetched = Append(@, [url |-> url, options |-> options])]

\* request() as it would be with the URL built before the credential check
RequestEntryUrlFirst(this, endpoint, method, data, queryParams) ==
    LET call == [IdleCall EXCEPT !.kind = "request",
                                 !.args = <<Str(endpoint), Str(method), data, queryParams>>]
        params == IF queryParams.t = "undefined" THEN Obj(<<>>) ELSE queryParams
        body == IF data.t = "undefined" THEN Null ELSE data
        parsed == NewUrl(this.baseUrl \o endpoint)
    IN  IF ~parsed.ok
        THEN Failed(call, parsed.err)
        ELSE IF ~Truthy(this.apiKey)
        THEN Failed(call, ApiKeyRequired)
        ELSE Fetching(call, WithQueryParams(parsed, params),
                      RequestOptions(this.apiKey, method, body))

\* request() as it would be if the credential were also sent as the query
\* parameter of the same name
RequestEntryKeyInQuery(this, endpoint, method, data, queryParams) ==
    LET call == [IdleCall EXCEPT !.kind = "request",
                                 !.args = <<Str(endpoint), Str(method), data, queryParams>>]
        params == IF queryParams.t = "undefined" THEN Obj(<<>>) ELSE queryParams
        body == IF data.t = "undefined" THEN Null ELSE data
        parsed == NewUrl(this.baseUrl \o endpoint)
        url == WithQueryParams(parsed, params)
    IN  IF ~Truthy(this.apiKey)
        THEN Failed(call, ApiKeyRequired)
        ELSE IF ~parsed.ok
        THEN Failed(call, parsed.err)
        ELSE Fetching(call,
                      [url EXCEPT !.searchParams =
                          Append(@, Entry("GROCY-API-KEY", this.apiKey.s))],
                      RequestOptions(this.apiKey, method, body))

\* request(): from the entry to the first await
RequestEntry(this, endpoint, method, data, queryParams) ==
    LET call == [IdleCall EXCEPT !.kind = "request",
                                 !.args = <<Str(endpoint), Str(method), data, queryParams>>]
        params == IF queryParams.t = "undefined" THEN Obj(<<>>) ELSE queryParams
        body == IF data.t = "undefined" THEN Null ELSE data
        parsed == NewUrl(this.baseUrl \o endpoint)
    IN  IF ~Truthy(this.apiKey)
        THEN Failed(call, ApiKeyRequired)
        ELSE IF ~parsed.ok
        THEN Failed(call, parsed.err)
        ELSE Fetching(call, WithQueryParams(parsed, params),
                      RequestOptions(this.apiKey, method, body))

\* request() as it would be if a failing status made it call fetch again
RequestResponseRetry(call, response) ==
    LET contentType == response.contentType
        got == [call EXCEPT !.response = response]
    IN  IF response.status = 204
        THEN Succeeded(got, SuccessMarker)
        ELSE IF ~ResponseOk(response) /\ Len(call.fetched) < 2
        THEN Fetching(call, call.fetched[1].url, call.fetched[1].options)
        ELSE IF Truthy(contentType) /\ Includes(contentType.s, "application/json")
        THEN [got EXCEPT !.pc = "awaitJson", !.jsonReads = @ + 1]
        ELSE IF Truthy(contentType) /\ Includes(contentType.s, "text/calendar")
        THEN [got EXCEPT !.pc = "awaitText", !.textReads = @ + 1]
        ELSE IF ResponseOk(response)
        THEN Succeeded(got, OpaqueMarker(response))
        ELSE Failed(got, Wrapped(HttpError(response.status)))

\* request() as it would be if response.ok were tested before text/calendar
RequestResponseOkBeforeCalendar(call, response) ==
    LET contentType == response.contentType
        got == [call EXCEPT !.response = response]
    IN  IF response.status = 204
        THEN Succeeded(got, SuccessMarker)
        ELSE IF Truthy(contentType) /\ Includes(contentType.s, "application/json")
        THEN [got EXCEPT !.pc = "awaitJson", !.jsonReads = @ + 1]
        ELSE IF ~ResponseOk(response)
        THEN Failed(got, Wrapped(HttpError(response.status)))
        ELSE IF Truthy(contentType) /\ Includes(contentType.s, "text/calendar")
        THEN [got EXCEPT !.pc = "awaitText", !.textReads = @ + 1]
        ELSE Succeeded(got, OpaqueMarker(response))

\* request() as it would be with the content-type inspected before the 204 check
RequestResponseContentTypeFirst(call, response) ==
    LET contentType == response.contentType
        got == [call EXCEPT !.response = response]
    IN  IF Truthy(contentType) /\ Includes(contentType.s, "application/json")
        THEN [got EXCEPT !.pc = "awaitJson", !.jsonReads = @ + 1]
        ELSE IF Truthy(contentType) /\ Includes(contentType.s, "text/calendar")
        THEN [got EXCEPT !.pc = "awaitText", !.textReads = @ + 1]
        ELSE IF response.status = 204
        THEN Succeeded(got, SuccessMarker)
        ELSE IF ResponseOk(response)
        THEN Succeeded(got, OpaqueMarker(response))
        ELSE Failed(got, Wrapped(HttpError(response.status)))

\* request() as it would be if a failing status always had its body parsed
RequestResponseParsingErrorBody(call, response) ==
    LET contentType == response.contentType
        got == [call EXCEPT !.response = response]
    IN  IF response.status = 204
        THEN Succeeded(got, SuccessMarker)
        ELSE IF Truthy(contentType) /\ Includes(contentType.s, "application/json")
        THEN [got EXCEPT !.pc = "awaitJson", !.jsonReads = @ + 1]
        ELSE IF Truthy(contentType) /\ Includes(contentType.s, "text/calendar")
        THEN [got EXCEPT !.pc = "awaitText", !.textReads = @ + 1]
        ELSE IF ResponseOk(response)
        THEN Succeeded(got, OpaqueMarker(response))
        ELSE [got EXCEPT !.pc = "awaitJson", !.jsonReads = @ + 1]

\* request(): from the transport response to the next await or the end
RequestResponse(call, response) ==
    LET contentType == response.contentType
        got == [call EXCEPT !.response = response]
    IN  IF response.status = 204
        THEN Succeeded(got, SuccessMarker)
        ELSE IF Truthy(contentType) /\ Includes(contentType.s, "application/json")
        THEN [got EXCEPT !.pc = "awaitJson", !.jsonReads = @ + 1]
        ELSE IF Truthy(contentType) /\ Includes(contentType.s, "text/calendar")
        THEN [got EXCEPT !.pc = "awaitText", !.textReads = @ + 1]
        ELSE IF ResponseOk(response)
        THEN Succeeded(got, OpaqueMarker(response))
        ELSE Failed(got, Wrapped(HttpError(response.status)))

\* request() as it would be if the parsed body were returned without looking
\* at response.ok
RequestJsonIgnoringStatus(call, jsonData) ==
    Succeeded([call EXCEPT !.read = JsonRead(jsonData)], jsonData)

\* request(): after await response.json()
RequestJson(call, jsonData) ==
    LET got == [call EXCEPT !.read = JsonRead(jsonData)] IN
    IF ~ResponseOk(call.response)
    THEN [got EXCEPT !.pc = "done", !.outcome = ErrorBodyFailure(jsonData, call.response)]
    ELSE Succeeded(got, jsonData)

\* request(): after await response.text()
RequestText(call, textData) ==
    Succeeded([call EXCEPT !.read = TextRead(textData)], CalendarWrapper(textData))

\* uploadFile() as it would be if the credential were checked before the arguments
UploadEntryKeyFirst(this, group, fileName, fileData) ==
    LET call == [IdleCall EXCEPT !.kind = "upload",
                                 !.args = <<group, fileName, fileData>>]
        validGroup ==
            validateString(group, "File group", StringOptions(TRUE, 100, 1, TRUE))
        validName ==
            validateString(fileName, "File name", StringOptions(TRUE, 255, 1, TRUE))
        parsed ==
            NewUrl(this.baseUrl \o "/files/" \o validGroup.v.s \o "/" \o validName.v.s)
    IN  IF ~Truthy(this.apiKey) THEN Failed(call, ApiKeyRequired)
        ELSE IF ~validGroup.ok THEN Failed(call, validGroup.err)
        ELSE IF ~validName.ok THEN Failed(call, validName.err)
        ELSE IF ~Truthy(fileData) THEN Failed(call, "File data is required")
        ELSE IF ~parsed.ok THEN Failed(call, parsed.err)
        ELSE Fetching(call, parsed, UploadOptions(this.apiKey, fileData))

\* uploadFile(): from the entry to the first await
UploadEntry(this, group, fileName, fileData) ==
    LET call == [IdleCall EXCEPT !.kind = "upload",
                                 !.args = <<group, fileName, fileData>>]
        validGroup ==
            validateString(group, "File group", StringOptions(TRUE, 100, 1, TRUE))
        validName ==
            validateString(fileName, "File name", StringOptions(TRUE, 255, 1, TRUE))
        parsed ==
            NewUrl(this.baseUrl \o "/files/" \o validGroup.v.s \o "/" \o validName.v.s)
    IN  IF ~validGroup.ok THEN Failed(call, validGroup.err)
        ELSE IF ~validName.ok THEN Failed(call, validName.err)
        ELSE IF ~Truthy(fileData) THEN Failed(call, "File data is required")
        ELSE IF ~Truthy(this.apiKey) THEN Failed(call, ApiKeyRequired)
        ELSE IF ~parsed.ok THEN Failed(call, parsed.err)
        ELSE Fetching(call, parsed, UploadOptions(this.apiKey, fileData))

\* uploadFile(): from the transport response to the next await or the end
UploadResponse(call, response) ==
    LET got == [call EXCEPT !.response = response] IN
    IF ~ResponseOk(response)
    THEN [got EXCEPT !.pc = "awaitJson", !.jsonReads = @ + 1]
    ELSE Succeeded(got, SuccessMarker)

\* uploadFile(): after await response.json()
UploadJson(call, errorData) ==
    [call EXCEPT !.read = JsonRead(errorData), !.pc = "done",
                 !.outcome = ErrorBodyFailure(errorData, call.response)]

(***************************************************************************)
(* Public operations.  Each validates its arguments and then calls         *)
(* request(); the call slot keeps the operation's name and arguments.  The *)
(* keys of the objects of the model are not array indices, so the entries  *)
(* of an object literal are in the order they are written.                 *)
(***************************************************************************)
\* the operation threw before it called request()
Rejected(name, args, message) ==
    Failed([IdleCall EXCEPT !.kind = name, !.args = args], message)

\* return this.request(...): the call goes on as that request() call
Delegated(name, args, entry) == [entry EXCEPT !.kind = name, !.args = args]

\* !data || typeof data !== 'object'
NotAnObject(data) ==
    ~Truthy(data) \/ data.t \notin {"object", "array", "date", "blob", "response"}

\* one property of an object literal: its key and what its validator gave
Field(k, r) == [k |-> k, r |-> r]

\* data.x !== undefined ? validate(data.x) : undefined
IfDefined(value, r) == IF value.t = "undefined" THEN Returned(Undef) ELSE r

\* the first validator of the literal that threw, in evaluation order
RECURSIVE FirstThrown(_)
FirstThrown(fields) ==
    IF Len(fields) = 0 THEN Returned(Undef)
    ELSE IF ~fields[1].r.ok THEN fields[1].r
    ELSE FirstThrown(Tail(fields))

\* the spread as it would be if no entry of data were kept
UnknownEntriesNone(data, knownFields) == <<>>

\* the entries Object.entries(data).reduce keeps: those that are not known fields
UnknownEntries(data, knownFields) ==
    SelectSeq(ObjectEntries(data), LAMBDA e : e.k \notin knownFields)

\* the frozen object literal: the validated known fields, then the spread
ValidatedData(fields, unknown) ==
    Obj([i \in 1..Len(fields) |-> Entry(fields[i].k, fields[i].r.v)] \o unknown)

\* an operation with a structured payload, once its data is known to be an object
StructuredRequest(this, name, args, endpoint, method, fields, unknown) ==
    LET thrown == FirstThrown(fields) IN
    IF ~thrown.ok
    THEN Rejected(name, args, thrown.err)
    ELSE Delegated(name, args,
                   RequestEntry(this, endpoint, method,
                                ValidatedData(fields, unknown), Undef))

editStockEntry(this, entryId, data) ==
    LET name == "editStockEntry"
        args == <<entryId, data>>
        id == validateId(entryId, "Entry ID")
        amount == GetProperty(data, "amount")
        best_before_date == GetProperty(data, "best_before_date")
        price == GetProperty(data, "price")
        open == GetProperty(data, "open")
        opened_date == GetProperty(data, "opened_date")
        location_id == GetProperty(data, "location_id")
        shopping_location_id == GetProperty(data, "shopping_location_id")
        knownFields == {"amount", "best_before_date", "price", "open",
                        "opened_date", "location_id", "shopping_location_id"}
    IN  IF ~id.ok THEN Rejected(name, args, id.err)
        ELSE IF NotAnObject(data)
        THEN Rejected(name, args, "Stock entry data must be a non-null object")
        ELSE StructuredRequest(this, name, args,
                "/stock/entry/" \o ToStringJs(id.v), "PUT",
                <<Field("amount",
                        IfDefined(amount,
                            validateNumber(amount, "Amount",
                                           NumberOptions(Num(0), Undef)))),
                  Field("best_before_date",
                        IfDefined(best_before_date,
                            validateOptionalDate(best_before_date, "Best before date"))),
                  Field("price",
                        IfDefined(price,
                            validateOptionalNumber(price, "Price",
                                                   NumberOptions(Num(0), Undef)))),
                  Field("open", IfDefined(open, validateBoolean(open, "Open"))),
                  Field("opened_date",
                        IfDefined(opened_date,
                            validateOptionalDate(opened_date, "Opened date"))),
                  Field("location_id",
                        IfDefined(location_id,
                            validateOptionalId(location_id, "Location ID"))),
                  Field("shopping_location_id",
                        IfDefined(shopping_location_id,
                            validateOptionalId(shopping_location_id,
                                               "Shopping location ID")))>>,
                UnknownEntries(data, knownFields))

getVolatileStock(this, dueSoonDays) ==
    LET name == "getVolatileStock"
        args == <<dueSoonDays>>
        days == validateNumber(IF dueSoonDays.t = "undefined" THEN Num(5) ELSE dueSoonDays,
                               "Due soon days", NumberOptions(Num(0), Num(365)))
    IN  IF ~days.ok THEN Rejected(name, args, days.err)
        ELSE Delegated(name, args,
                       RequestEntry(this, "/stock/volatile", "GET", Null,
                                    Obj(<<Entry("due_soon_days", days.v)>>)))

getProductDetails(this, productId) ==
    LET name == "getProductDetails"
        args == <<productId>>
        id == validateId(productId, "Product ID")
    IN  IF ~id.ok THEN Rejected(name, args, id.err)
        ELSE Delegated(name, args,
                       RequestEntry(this, "/stock/products/" \o ToStringJs(id.v),
                                    "GET", Undef, Undef))

getProductByBarcode(this, barcode) ==
    LET name == "getProductByBarcode"
        args == <<barcode>>
        code == validateString(barcode, "Barcode", StringOptions(TRUE, 200, 1, FALSE))
    IN  IF ~code.ok THEN Rejected(name, args, code.err)
        ELSE Delegated(name, args,
                       RequestEntry(this, "/stock/products/by-barcode/" \o code.v.s,
                                    "GET", Undef, Undef))

addProductToStock(this, productId, data) ==
    LET name == "addProductToStock"
        args == <<productId, data>>
        id == validateId(productId, "Product ID")
        knownFields == {"amount", "price", "best_before_date", "location_id",
                        "shopping_location_id", "transaction_type"}
    IN  IF ~id.ok THEN Rejected(name, args, id.err)
        ELSE IF NotAnObject(data)
        THEN Rejected(name, args, "Stock data must be a non-null object")
        ELSE StructuredRequest(this, name, args,
                "/stock/products/" \o ToStringJs(id.v) \o "/add", "POST",
                <<Field("amount",
                        validateNumber(GetProperty(data, "amount"), "Amount",
                                       NumberOptions(Milli(1), Undef))),
                  Field("price",
                        validateOptionalNumber(GetProperty(data, "price"), "Price",
                                               NumberOptions(Num(0), Undef))),
                  Field("best_before_date",
                        validateOptionalDate(GetProperty(data, "best_before_date"),
                                             "Best before date")),
                  Field("location_id",
                        validateOptionalId(GetProperty(data, "location_id"),
                                           "Location ID")),
                  Field("shopping_location_id",
                        validateOptionalId(GetProperty(data, "shopping_location_id"),
                                           "Shopping location ID")),
                  Field("transaction_type",
                        validateOptionalString(GetProperty(data, "transaction_type"),
                                               "Transaction type",
                                               StringOptions(TRUE, 50, NoMinLength, TRUE)))>>,
                UnknownEntries(data, knownFields))

\* entity = validateString(...); objectId = validateId(...) for a number and
\* validateString(...) for anything else
getUserfields(this, entity, objectId) ==
    LET name == "getUserfields"
        args == <<entity, objectId>>
        validEntity ==
            validateString(entity, "Entity name", StringOptions(TRUE, 50, 1, FALSE))
        validObjectId ==
            IF IsNumber(objectId)
            THEN validateId(objectId, "Object ID")
            ELSE validateString(objectId, "Object ID", StringOptions(TRUE, 100, 1, TRUE))
    IN  IF ~validEntity.ok THEN Rejected(name, args, validEntity.err)
        ELSE IF ~validObjectId.ok THEN Rejected(name, args, validObjectId.err)
        ELSE Delegated(name, args,
                       RequestEntry(this,
                                    "/userfields/" \o validEntity.v.s \o "/"
                                        \o ToStringJs(validObjectId.v),
                                    "GET", Undef, Undef))

getFile(this, group, fileName, options) ==
    LET name == "getFile"
        args == <<group, fileName, options>>
        given == IF options.t = "undefined" THEN Obj(<<>>) ELSE options
        validGroup ==
            validateString(group, "File group", StringOptions(TRUE, 100, 1, FALSE))
        validName ==
            validateString(fileName, "File name", StringOptions(TRUE, 255, 1, FALSE))
    IN  IF ~validGroup.ok THEN Rejected(name, args, validGroup.err)
        ELSE IF ~validName.ok THEN Rejected(name, args, validName.err)
        ELSE IF ~HasProperties(given)
        THEN Rejected(name, args, PropertyTypeError(given, "force_serve_as"))
        ELSE LET force_serve_as ==
                     validateOptionalString(GetProperty(given, "force_serve_as"),
                                            "Force serve as",
                                            StringOptions(TRUE, 100, NoMinLength, TRUE))
             IN  IF ~force_serve_as.ok THEN Rejected(name, args, force_serve_as.err)
                 ELSE Delegated(name, args,
                         RequestEntry(this,
                             "/files/" \o validGroup.v.s \o "/" \o validName.v.s,
                             "GET", Null,
                             ValidatedData(<<Field("force_serve_as", force_serve_as)>>,
                                           UnknownEntries(given, {"force_serve_as"}))))

deleteFile(this, group, fileName) ==
    LET name == "deleteFile"
        args == <<group, fileName>>
        validGroup ==
            validateString(group, "File group", StringOptions(TRUE, 100, 1, FALSE))
        validName ==
            validateString(fileName, "File name", StringOptions(TRUE, 255, 1, FALSE))
    IN  IF ~validGroup.ok THEN Rejected(name, args, validGroup.err)
        ELSE IF ~validName.ok THEN Rejected(name, args, validName.err)
        ELSE Delegated(name, args,
                       RequestEntry(this,
                                    "/files/" \o validGroup.v.s \o "/" \o validName.v.s,
                                    "DELETE", Undef, Undef))

createUser(this, data) ==
    LET name == "createUser"
        args == <<data>>
        knownFields == {"username", "password", "first_name", "last_name"}
    IN  IF NotAnObject(data)
        THEN Rejected(name, args, "User data must be a non-null object")
        ELSE StructuredRequest(this, name, args, "/users", "POST",
                <<Field("username",
                        validateString(GetProperty(data, "username"), "Username",
                                       StringOptions(TRUE, 50, 1, TRUE))),
                  Field("password",
                        validateString(GetProperty(data, "password"), "Password",
                                       StringOptions(TRUE, 200, 1, FALSE))),
                  Field("first_name",
                        validateOptionalString(GetProperty(data, "first_name"),
                                               "First name",
                                               StringOptions(TRUE, 100, NoMinLength, TRUE))),
                  Field("last_name",
                        validateOptionalString(GetProperty(data, "last_name"),
                                               "Last name",
                                               StringOptions(TRUE, 100, NoMinLength, TRUE)))>>,
                UnknownEntries(data, knownFields))

getUserSetting(this, settingKey) ==
    LET name == "getUserSetting"
        args == <<settingKey>>
        key == validateString(settingKey, "Setting key", StringOptions(TRUE, 100, 1, FALSE))
    IN  IF ~key.ok THEN Rejected(name, args, key.err)
        ELSE Delegated(name, args,
                       RequestEntry(this, "/user/settings/" \o key.v.s,
                                    "GET", Undef, Undef))

completeTask(this, taskId, data) ==
    LET name == "completeTask"
        args == <<taskId, data>>
        given == IF data.t = "undefined" THEN Obj(<<>>) ELSE data
        id == validateId(taskId, "Task ID")
    IN  IF ~id.ok THEN Rejected(name, args, id.err)
        ELSE IF ~HasProperties(given)
        THEN Rejected(name, args, PropertyTypeError(given, "done_time"))
        ELSE StructuredRequest(this, name, args,
                "/tasks/" \o ToStringJs(id.v) \o "/complete", "POST",
                <<Field("done_time",
                        validateOptionalDate(GetProperty(given, "done_time"),
                                             "Done time"))>>,
                UnknownEntries(given, {"done_time"}))

addRecipeProductsToShoppingList(this, recipeId, data) ==
    LET name == "addRecipeProductsToShoppingList"
        args == <<recipeId, data>>
        given == IF data.t = "undefined" THEN Obj(<<>>) ELSE data
        id == validateId(recipeId, "Recipe ID")
        excluded_product_ids == GetProperty(given, "excluded_product_ids")
    IN  IF ~id.ok THEN Rejected(name, args, id.err)
        ELSE IF ~HasProperties(given)
        THEN Rejected(name, args, PropertyTypeError(given, "excluded_product_ids"))
        ELSE StructuredRequest(this, name, args,
                "/recipes/" \o ToStringJs(id.v)
                    \o "/add-not-fulfilled-products-to-shoppinglist", "POST",
                <<Field("excluded_product_ids",
                        IF Truthy(excluded_product_ids)
                        THEN validateArray(excluded_product_ids, "Excluded product IDs",
                                           [required |-> TRUE,
                                            itemValidator |-> "productId"])
                        ELSE Returned(Undef))>>,
                UnknownEntries(given, {"excluded_product_ids"}))

(***************************************************************************)
(* Inputs: what callers pass and what the transport answers.               *)
(***************************************************************************)
\* a base URL of 253 characters: accepted, and 257 characters once normalized
LongBaseUrl == "https://" \o Repeat("h", DefaultMaxLength - 10)

BaseUrlArgs ==
    {Undef, Null, Num(8080), Str(""), Str("  "),
     Str("https://h"), Str("https://h/api"), Str("https://h/"),
     Str("grocy.local"), Str(LongBaseUrl)}

ApiKeyArgs ==
    {Undef, Null, Num(7), Str(""), Str(" "), Str("key-1"), Str("key-2")}

Methods == {"GET", "POST", "PUT", "DELETE"}

DataValues ==
    {Null, Obj(<<Entry("name", Str("Test")), Entry("value", Num(123))>>)}

ArrayElements == {Num(1), Str("b")}

ArrayValues == {Arr(a) : a \in UNION {[1..n -> ArrayElements] : n \in 0..MaxArrayLen}}

ScalarValues == {Undef, Null, Num(0), Str("v")}

QueryValues == ScalarValues \cup ArrayValues

QueryParamValues ==
    {Undef, Null, Obj(<<>>)}
    \cup {Obj(<<Entry("k", v)>>) : v \in QueryValues}
    \cup {Obj(<<Entry("k", v), Entry("j", w)>>) :
             v \in QueryValues, w \in {Null, Arr(<<Num(2)>>)}}

\* the (endpoint, method, data, queryParams) tuples request() is called with
RequestArgs ==
    {<<"/stock", "GET", Null, q>> : q \in QueryParamValues}
    \cup {<<"/stock", m, d, q>> :
             m \in Methods, d \in DataValues,
             q \in {Undef, Obj(<<Entry("k", Str("v"))>>)}}

FileData == JsValue("blob", "bytes", 0, <<>>)

\* the (group, fileName, fileData) tuples uploadFile() is called with
UploadArgs ==
    {<<g, f, d>> : g \in {Str("pics"), Str("")},
                   f \in {Str("a.jpg"), Str("a/b")},
                   d \in {FileData, Null}}

Statuses == {200, 204, 400}

ContentTypes ==
    {Null, Str("application/json"), Str("application/json; charset=utf-8"),
     Str("text/calendar"), Str("text/plain"),
     Str("text/calendar; profile=application/json")}

Responses == [status : Statuses, contentType : ContentTypes]

NetworkErrors == {"Network error"}

JsonBodies ==
    {Null, Obj(<<>>), Obj(<<Entry("key", Str("value"))>>),
     Obj(<<Entry("error_message", Str("Bad request"))>>),
     Obj(<<Entry("error_message", Str(""))>>)}

ParseErrors == {"Unexpected end of JSON input"}

TextBodies == {"BEGIN:VCALENDAR"}

TextErrors == {"Body is unusable"}

\* the call slots of a client, and the one the main specification uses
CallSlots == {"c1", "c2"}

MainSlots == {"c1"}

(***************************************************************************)
(* Actions.                                                                *)
(***************************************************************************)
\* the state after new Grocy(baseUrl, apiKey)
Construct(baseUrl, apiKey) ==
    LET made == Constructor(baseUrl, apiKey) IN
    /\ ctorArgs = <<baseUrl, apiKey>>
    /\ ctorError = made.error
    /\ client = made.client
    /\ calls = [c \in CallSlots |-> IdleCall]

\* setApiKey as it would be if a failed validation cleared the credential
SetApiKeyClearingOnFailure(apiKey) ==
    LET validatedApiKey ==
            validateOptionalString(apiKey, "API key",
                                   StringOptions(TRUE, DefaultMaxLength, 1, FALSE))
    IN  /\ client.exists
        /\ client' = IF validatedApiKey.ok
                     THEN [client EXCEPT !.apiKey = StoredApiKey(validatedApiKey.v)]
                     ELSE [client EXCEPT !.apiKey = Null]
        /\ UNCHANGED <<ctorArgs, ctorError, calls>>

SetApiKey(apiKey) ==
    LET validatedApiKey ==
            validateOptionalString(apiKey, "API key",
                                   StringOptions(TRUE, DefaultMaxLength, 1, FALSE))
    IN  /\ client.exists
        /\ client' = IF validatedApiKey.ok
                     THEN [client EXCEPT !.apiKey = StoredApiKey(validatedApiKey.v)]
                     ELSE client
        /\ UNCHANGED <<ctorArgs, ctorError, calls>>

RequestStart(c, endpoint, method, data, queryParams) ==
    /\ client.exists
    /\ calls[c].pc = "idle"
    /\ calls' = [calls EXCEPT ![c] = RequestEntry(client, endpoint, method, data, queryParams)]
    /\ UNCHANGED <<ctorArgs, ctorError, client>>

UploadStart(c, group, fileName, fileData) ==
    /\ client.exists
    /\ calls[c].pc = "idle"
    /\ calls' = [calls EXCEPT ![c] = UploadEntry(client, group, fileName, fileData)]
    /\ UNCHANGED <<ctorArgs, ctorError, client>>

\* the resumption after fetch() as it would be if the response were kept in
\* a place all the waiting calls read
FetchResolveShared(c, response) ==
    /\ calls[c].pc = "awaitFetch"
    /\ calls' = [d \in CallSlots |->
                    IF calls[d].pc # "awaitFetch" THEN calls[d]
                    ELSE IF calls[d].kind = "upload"
                    THEN UploadResponse(calls[d], response)
                    ELSE RequestResponse(calls[d], response)]
    /\ UNCHANGED <<ctorArgs, ctorError, client>>

\* the resumption after fetch() as it would be if the credential were read
\* again after the await
FetchResolveCheckingKey(c, response) ==
    /\ calls[c].pc = "awaitFetch"
    /\ calls' = [calls EXCEPT ![c] =
                    IF ~Truthy(client.apiKey)
                    THEN Failed(calls[c], ApiKeyRequired)
                    ELSE IF calls[c].kind = "upload"
                    THEN UploadResponse(calls[c], response)
                    ELSE RequestResponse(calls[c], response)]
    /\ UNCHANGED <<ctorArgs, ctorError, client>>

\* the promise of fetch() resolves with a response
FetchResolve(c, response) ==
    /\ calls[c].pc = "awaitFetch"
    /\ calls' = [calls EXCEPT ![c] =
                    IF calls[c].kind = "upload"
                    THEN UploadResponse(calls[c], response)
                    ELSE RequestResponse(calls[c], response)]
    /\ UNCHANGED <<ctorArgs, ctorError, client>>

\* the rejection of fetch() as it would be if it left without the wrapper
FetchRejectUnwrapped(c, message) ==
    /\ calls[c].pc = "awaitFetch"
    /\ calls' = [calls EXCEPT ![c] = Failed(calls[c], message)]
    /\ UNCHANGED <<ctorArgs, ctorError, client>>

\* the promise of fetch() rejects: a network failure
FetchReject(c, message) ==
    /\ calls[c].pc = "awaitFetch"
    /\ calls' = [calls EXCEPT ![c] = Failed(calls[c], Wrapped(message))]
    /\ UNCHANGED <<ctorArgs, ctorError, client>>

\* the promise of response.json() resolves with the parsed body
JsonResolve(c, jsonData) ==
    /\ calls[c].pc = "awaitJson"
    /\ calls' = [calls EXCEPT ![c] =
                    IF calls[c].kind = "upload"
                    THEN UploadJson(calls[c], jsonData)
                    ELSE RequestJson(calls[c], jsonData)]
    /\ UNCHANGED <<ctorArgs, ctorError, client>>

\* the promise of response.json() rejects: the body is not JSON
JsonReject(c, message) ==
    /\ calls[c].pc = "awaitJson"
    /\ calls' = [calls EXCEPT ![c] = ReadFailed(calls[c], message)]
    /\ UNCHANGED <<ctorArgs, ctorError, client>>

\* the promise of response.text() resolves with the body text
TextResolve(c, textData) ==
    /\ calls[c].pc = "awaitText"
    /\ calls' = [calls EXCEPT ![c] = RequestText(calls[c], textData)]
    /\ UNCHANGED <<ctorArgs, ctorError, client>>

\* the promise of response.text() rejects
TextReject(c, message) ==
    /\ calls[c].pc = "awaitText"
    /\ calls' = [calls EXCEPT ![c] = ReadFailed(calls[c], message)]
    /\ UNCHANGED <<ctorArgs, ctorError, client>>

\* the caller has received the outcome; the slot is free for the next call
Settle(c) ==
    /\ calls[c].pc = "done"
    /\ calls' = [calls EXCEPT ![c] = IdleCall]
    /\ UNCHANGED <<ctorArgs, ctorError, client>>

(***************************************************************************)
(* Specification: one client, one call at a time, setApiKey at any moment. *)
(***************************************************************************)
Init == \E baseUrl \in BaseUrlArgs, apiKey \in ApiKeyArgs : Construct(baseUrl, apiKey)

Next ==
    \/ \E apiKey \in ApiKeyArgs : SetApiKey(apiKey)
    \/ \E c \in MainSlots, a \in RequestArgs : RequestStart(c, a[1], a[2], a[3], a[4])
    \/ \E c \in MainSlots, a \in UploadArgs : UploadStart(c, a[1], a[2], a[3])
    \/ \E c \in MainSlots, response \in Responses : FetchResolve(c, response)
    \/ \E c \in MainSlots, message \in NetworkErrors : FetchReject(c, message)
    \/ \E c \in MainSlots, jsonData \in JsonBodies : JsonResolve(c, jsonData)
    \/ \E c \in MainSlots, message \in ParseErrors : JsonReject(c, message)
    \/ \E c \in MainSlots, textData \in TextBodies : TextResolve(c, textData)
    \/ \E c \in MainSlots, message \in TextErrors : TextReject(c, message)
    \/ \E c \in MainSlots : Settle(c)

Spec == Init /\ [][Next]_vars

(***************************************************************************)
(* Specification of overlapping calls: two call slots on one client, so    *)
(* that a call can start, and setApiKey can run, while another call is     *)
(* suspended at an await.                                                  *)
(***************************************************************************)
PairApiKeyArgs == {Null, Str("key-1"), Str("key-2")}

PairRequestArgs ==
    {<<"/stock", "GET", Null, Obj(<<Entry("k", Arr(<<Num(1)>>))>>)>>,
     <<"/stock", "PUT", Obj(<<Entry("name", Str("Test"))>>), Undef>>}

PairUploadArgs == {<<Str("pics"), Str("a.jpg"), FileData>>}

PairResponses ==
    [status : {200, 400}, contentType : {Str("application/json"), Str("text/calendar")}]

PairJsonBodies == {Obj(<<>>)}

NextPair ==
    \/ \E apiKey \in PairApiKeyArgs : SetApiKey(apiKey)
    \/ \E c \in CallSlots, a \in PairRequestArgs : RequestStart(c, a[1], a[2], a[3], a[4])
    \/ \E c \in CallSlots, a \in PairUploadArgs : UploadStart(c, a[1], a[2], a[3])
    \/ \E c \in CallSlots, response \in PairResponses : FetchResolve(c, response)
    \/ \E c \in CallSlots, message \in NetworkErrors : FetchReject(c, message)
    \/ \E c \in CallSlots, jsonData \in PairJsonBodies : JsonResolve(c, jsonData)
    \/ \E c \in CallSlots, message \in ParseErrors : JsonReject(c, message)
    \/ \E c \in CallSlots, textData \in TextBodies : TextResolve(c, textData)
    \/ \E c \in CallSlots, message \in TextErrors : TextReject(c, message)
    \/ \E c \in CallSlots : Settle(c)

SpecPair == Init /\ [][NextPair]_vars

(***************************************************************************)
(* Properties.                                                             *)
(***************************************************************************)
\* a step in which slot c leaves idle: request() was called
RequestCalled(c) == calls[c].pc = "idle" /\ calls'[c].kind = "request"

\* a step in which slot c leaves idle: uploadFile() was called
UploadCalled(c) == calls[c].pc = "idle" /\ calls'[c].kind = "upload"

\* the transport response of the call has arrived
HasResponse(call) == call.response # NoResponse

IsJsonType(response) ==
    /\ response.contentType.t = "string"
    /\ Includes(response.contentType.s, "application/json")

IsCalendarType(response) ==
    /\ response.contentType.t = "string"
    /\ Includes(response.contentType.s, "text/calendar")

C2_ExactlyOneFetchAlways ==
    [][\A c \in CallSlots :
          /\ (RequestCalled(c) /\ Truthy(client.apiKey)) => Len(calls'[c].fetched) = 1
          /\ (calls[c].kind = "request" /\ calls'[c].kind = "request")
                => calls'[c].fetched = calls[c].fetched]_vars

\* C2 amended: a request() made with a credential present invokes the
\* transport exactly once when the URL built from baseUrl and endpoint parses
\* and not at all when it does not; whatever the response, the body read or
\* the failure, no later step of the call invokes the transport again.
C2_OneFetchWhenUrlParses ==
    [][\A c \in CallSlots :
          /\ (RequestCalled(c) /\ Truthy(client.apiKey)) =>
                IF HasScheme(client.baseUrl \o calls'[c].args[1].s)
                THEN Len(calls'[c].fetched) = 1 /\ calls'[c].pc = "awaitFetch"
                ELSE Len(calls'[c].fetched) = 0 /\ calls'[c].pc = "done"
          /\ (calls[c].kind = "request" /\ calls'[c].kind = "request")
                => calls'[c].fetched = calls[c].fetched]_vars

\* C2 witness: a request that got a failing status and then a body that did
\* not parse has ended with exactly one transport invocation
C2_Witness ==
    \E c \in CallSlots :
        /\ calls[c].kind = "request"
        /\ calls[c].pc = "done"
        /\ ~ResponseOk(calls[c].response)
        /\ calls[c].read.tag = "error"
        /\ Len(calls[c].fetched) = 1

\* C3 as stated: every error a client method fails with has a message that
\* starts with the fixed prefix, whatever the origin of the failure.
C3_EveryFailureIsPrefixed ==
    \A c \in CallSlots :
        calls[c].outcome.tag = "throw"
            => StartsWith(calls[c].outcome.message, FailurePrefix)

\* C4: a response with status 204 makes request() return { success: true }
\* whatever its content-type, and no body reader is invoked.
C4_NoContentIsEmptySuccess ==
    \A c \in CallSlots :
        (calls[c].kind = "request" /\ calls[c].response.status = 204) =>
            /\ calls[c].pc = "done"
            /\ calls[c].outcome = Return(SuccessMarker)
            /\ calls[c].jsonReads = 0
            /\ calls[c].textReads = 0
            /\ calls[c].read = NoRead

\* C4 witness: a 204 response that declares application/json was answered
\* with the empty-success marker
C4_Witness ==
    \E c \in CallSlots :
        /\ calls[c].kind = "request"
        /\ calls[c].response.status = 204
        /\ IsJsonType(calls[c].response)
        /\ calls[c].outcome = Return(SuccessMarker)

\* a request() call that has finished
RequestDone(call) == call.kind = "request" /\ call.pc = "done"

\* the parsed body has an error_message property
CarriesErrorMessage(jsonData) ==
    /\ jsonData.t = "object"
    /\ \E i \in 1..Len(jsonData.a) : jsonData.a[i].k = "error_message"

C6_CalendarAlways ==
    \A c \in CallSlots :
        LET call == calls[c] IN
        (RequestDone(call) /\ HasResponse(call) /\ IsCalendarType(call.response)
            /\ call.read.tag # "error") =>
            /\ call.read.tag = "text"
            /\ call.outcome = Return(Obj(<<Entry("calendar", call.read.value)>>))

\* C6 amended: every response that declares text/calendar, does not also
\* declare application/json, has a status other than 204 and has the text
\* body t makes request() return exactly { calendar: t }, whether the status
\* is 2xx or not.
C6_CalendarUnlessNoContentOrJson ==
    \A c \in CallSlots :
        LET call == calls[c] IN
        (RequestDone(call) /\ HasResponse(call) /\ IsCalendarType(call.response)
            /\ ~IsJsonType(call.response) /\ call.response.status # 204
            /\ call.read.tag # "error") =>
            /\ call.read.tag = "text"
            /\ call.textReads = 1 /\ call.jsonReads = 0
            /\ call.outcome = Return(Obj(<<Entry("calendar", call.read.value)>>))

\* C6 witness: a text/calendar response with status 400 was returned as a
\* calendar wrapper
C6_Witness ==
    \E c \in CallSlots :
        /\ RequestDone(calls[c])
        /\ calls[c].response = [status |-> 400, contentType |-> Str("text/calendar")]
        /\ calls[c].outcome = Return(Obj(<<Entry("calendar", Str("BEGIN:VCALENDAR"))>>))

\* the pairs of searchParams that carry the given name, in order
PairsNamed(searchParams, name) == SelectSeq(searchParams, LAMBDA p : p.k = name)

\* the entries of the queryParams argument
QueryEntries(queryParams) == IF queryParams.t = "object" THEN queryParams.a ELSE <<>>

\* C7: the query of the dispatched URL is determined entry by entry: an array
\* under key k gives one 'k[]' pair per element in array order and no bare
\* 'k' pair, a non-null scalar gives one 'k' pair with its string form, a null
\* or undefined value gives no pair at all, and null or empty queryParams
\* give a URL without query string.
C7_QueryFromEntries ==
    \A c \in CallSlots :
        LET call == calls[c] IN
        (call.kind = "request" /\ Len(call.fetched) = 1) =>
            LET url == call.fetched[1].url
                pairs == url.searchParams
                entries == QueryEntries(call.args[4])
            IN
            /\ \A i \in 1..Len(entries) :
                  LET k == entries[i].k
                      v == entries[i].v
                  IN  CASE v.t = "array" ->
                             /\ PairsNamed(pairs, k) = <<>>
                             /\ PairsNamed(pairs, k \o "[]") =
                                   [j \in 1..Len(v.a) |->
                                       [k |-> k \o "[]",
                                        v |-> IF v.a[j].t = "number"
                                              THEN ToString(v.a[j].n) ELSE v.a[j].s]]
                        [] v.t \in {"null", "undefined"} ->
                             /\ PairsNamed(pairs, k) = <<>>
                             /\ PairsNamed(pairs, k \o "[]") = <<>>
                        [] OTHER ->
                             /\ PairsNamed(pairs, k \o "[]") = <<>>
                             /\ PairsNamed(pairs, k) =
                                   <<[k |-> k,
                                      v |-> IF v.t = "number" THEN ToString(v.n) ELSE v.s]>>
            /\ \A j \in 1..Len(pairs) :
                  \E i \in 1..Len(entries) :
                      pairs[j].k \in {entries[i].k, entries[i].k \o "[]"}
            /\ Len(entries) = 0 =>
                  /\ pairs = <<>>
                  /\ Href(url) = url.href
                  /\ ~Includes(Href(url), "?")

\* C7 witness: { k: [1, 'b'], j: null } was dispatched as k[]=1&k[]=b
C7_Witness ==
    \E c \in CallSlots :
        /\ calls[c].kind = "request"
        /\ calls[c].pc = "awaitFetch"
        /\ calls[c].args[4] =
              Obj(<<Entry("k", Arr(<<Num(1), Str("b")>>)), Entry("j", Null)>>)
        /\ calls[c].fetched[1].url.searchParams =
              <<Entry("k[]", "1"), Entry("k[]", "b")>>
        /\ EndsWith(Href(calls[c].fetched[1].url), "/stock?k%5B%5D=1&k%5B%5D=b")

\* C8: the transport call of request() carries a body exactly when the method
\* is POST or PUT and data was supplied, and the body is then the JSON text of
\* data; GET and DELETE never carry one, nor does POST or PUT with null data.
C8_BodyOnlyForPostPutWithData ==
    \A c \in CallSlots :
        LET call == calls[c] IN
        (call.kind = "request" /\ Len(call.fetched) = 1) =>
            LET options == call.fetched[1].options
                method == call.args[2].s
                data == call.args[3]
            IN
            /\ options.method = method
            /\ options.hasBody <=> (method \in {"POST", "PUT"} /\ ~IsNullish(data))
            /\ options.hasBody => options.body = Str(JsonStringify(data))
            /\ ~options.hasBody => options.body = Undef

\* C8 witness: a PUT with data was sent with the JSON text of the data
C8_Witness ==
    \E c \in CallSlots :
        /\ calls[c].kind = "request"
        /\ Len(calls[c].fetched) = 1
        /\ calls[c].args[2] = Str("PUT")
        /\ calls[c].args[3] = Obj(<<Entry("name", Str("Test")), Entry("value", Num(123))>>)
        /\ calls[c].fetched[1].options.hasBody
        /\ calls[c].fetched[1].options.body = Str("{\"name\":\"Test\",\"value\":123}")

\* a step in which slot c invokes the transport: request() or uploadFile()
\* has dispatched
Dispatched(c) == calls[c].pc = "idle" /\ calls'[c].pc = "awaitFetch"

\* C9: a dispatch of request() or uploadFile() hands the stored credential to
\* the transport as the value of the GROCY-API-KEY header and nowhere else:
\* not in another header, not in the body text and not in the URL, so that a
\* dispatch with the same arguments under another credential has the same URL.
C9_CredentialOnlyInHeader ==
    [][\A c \in CallSlots :
          Dispatched(c) =>
              LET sent == calls'[c].fetched[1]
                  headers == sent.options.headers
              IN
              /\ PairsNamed(headers, "GROCY-API-KEY")
                    = <<[k |-> "GROCY-API-KEY", v |-> client.apiKey]>>
              /\ client.apiKey.t = "string" /\ client.apiKey.s # ""
              /\ \A i \in 1..Len(headers) :
                    headers[i].k # "GROCY-API-KEY" => headers[i].v # client.apiKey
              /\ ~Includes(Href(sent.url), client.apiKey.s)
              /\ sent.options.body.t = "string"
                    => ~Includes(sent.options.body.s, client.apiKey.s)
              /\ \A d \in CallSlots \ {c} :
                    (/\ calls[d].kind = calls'[c].kind
                     /\ calls[d].args = calls'[c].args
                     /\ Len(calls[d].fetched) = 1)
                    => /\ calls[d].fetched[1].url = sent.url
                       /\ Href(calls[d].fetched[1].url) = Href(sent.url)]_vars

\* C9 witness: two requests with the same arguments are in flight under
\* different credentials and their URLs are the same
C9_Witness ==
    /\ calls["c1"].kind = "request" /\ calls["c2"].kind = "request"
    /\ Len(calls["c1"].fetched) = 1 /\ Len(calls["c2"].fetched) = 1
    /\ calls["c1"].args = calls["c2"].args
    /\ Len(calls["c1"].fetched[1].url.searchParams) > 0
    /\ calls["c1"].fetched[1].options.headers[1] = Entry("GROCY-API-KEY", Str("key-1"))
    /\ calls["c2"].fetched[1].options.headers[1] = Entry("GROCY-API-KEY", Str("key-2"))
    /\ Href(calls["c1"].fetched[1].url) = Href(calls["c2"].fetched[1].url)

\* the base-URL argument the client was constructed with
BaseArg == ctorArgs[1].s

\* the baseUrl of new Grocy(baseUrl) with the credential argument of this client
BaseUrlOf(baseUrl) == Constructor(Str(baseUrl), ctorArgs[2]).client.baseUrl

\* C10 as stated: for every base h the constructor accepts, constructing with
\* h and with h + '/api' both yield the baseUrl h + '/api', and constructing
\* from the stored baseUrl yields that baseUrl again.
C10_RoundTripForEveryBase ==
    client.exists =>
        /\ client.baseUrl = BaseArg \o "/api"
        /\ BaseUrlOf(BaseArg \o "/api") = BaseArg \o "/api"
        /\ BaseUrlOf(client.baseUrl) = client.baseUrl

\* C10 amended: a base h that does not already end in '/api' is stored as
\* h + '/api', and constructing with h + '/api' yields that same baseUrl
\* provided h + '/api' is within the 255-character limit; a base that already
\* ends in '/api' is stored unchanged; constructing from a stored baseUrl that
\* is within the limit yields that baseUrl again.
C10_RoundTripWithinLimit ==
    client.exists =>
        /\ ~EndsWith(BaseArg, "/api") =>
              /\ client.baseUrl = BaseArg \o "/api"
              /\ Len(Trim(BaseArg \o "/api")) <= 255
                    => BaseUrlOf(BaseArg \o "/api") = client.baseUrl
        /\ EndsWith(BaseArg, "/api") => client.baseUrl = BaseArg
        /\ Len(Trim(client.baseUrl)) <= 255
              => BaseUrlOf(client.baseUrl) = client.baseUrl

\* C10 witness: the client constructed with 'https://h' holds 'https://h/api',
\* as does the one constructed with 'https://h/api'
C10_Witness ==
    /\ client.exists
    /\ ctorArgs[1] = Str("https://h")
    /\ client.baseUrl = "https://h/api"
    /\ BaseUrlOf("https://h/api") = "https://h/api"

(***************************************************************************)
(* Specification of the client's life: every kind of constructor argument, *)
(* setApiKey with every kind of argument at any moment, and calls that     *)
(* dispatch in between.                                                    *)
(***************************************************************************)
\* the arguments of the client's life; the last credential has 256
\* characters, one more than validateString accepts
ClientArgs ==
    [baseUrl |-> BaseUrlArgs \cup {Str("https://h/api/"), Str("https://h/api/api")},
     apiKey |->
        ApiKeyArgs \cup {Str(" key-3 "), Str(Repeat("k", DefaultMaxLength + 1))},
     upload |->
        {<<Str("pics"), Str("a.jpg"), FileData>>, <<Str(""), Str("a.jpg"), FileData>>}]

InitClient ==
    \E baseUrl \in ClientArgs.baseUrl, apiKey \in ClientArgs.apiKey :
        Construct(baseUrl, apiKey)

NextClient ==
    \/ \E apiKey \in ClientArgs.apiKey : SetApiKey(apiKey)
    \/ \E c \in MainSlots, a \in PairRequestArgs : RequestStart(c, a[1], a[2], a[3], a[4])
    \/ \E c \in MainSlots, a \in ClientArgs.upload : UploadStart(c, a[1], a[2], a[3])
    \/ \E c \in MainSlots, response \in PairResponses : FetchResolve(c, response)
    \/ \E c \in MainSlots, message \in NetworkErrors \cup {"connect ECONNREFUSED"} :
          FetchReject(c, message)
    \/ \E c \in MainSlots, jsonData \in PairJsonBodies : JsonResolve(c, jsonData)
    \/ \E c \in MainSlots, message \in ParseErrors : JsonReject(c, message)
    \/ \E c \in MainSlots, textData \in TextBodies : TextResolve(c, textData)
    \/ \E c \in MainSlots, message \in TextErrors : TextReject(c, message)
    \/ \E c \in MainSlots : Settle(c)

SpecClient == InitClient /\ [][NextClient]_vars

\* s without its last four characters
WithoutSuffix(s) == SubSeq(s, 1, Len(s) - 4)

\* C11 as stated: for every base-URL argument the constructor accepts, the
\* stored baseUrl ends with exactly one trailing '/api'.
C11_ExactlyOneTrailingApi ==
    client.exists =>
        /\ EndsWith(client.baseUrl, "/api")
        /\ ~EndsWith(WithoutSuffix(client.baseUrl), "/api")

\* C11 amended: the stored baseUrl ends with '/api'; it is the argument itself
\* when the argument ends with '/api' and the argument followed by '/api'
\* otherwise (a trailing slash of the argument is kept), so it has exactly one
\* trailing '/api' unless the argument itself ended with '/api/api'.
C11_OneTrailingApiUnlessGivenTwo ==
    client.exists =>
        /\ EndsWith(client.baseUrl, "/api")
        /\ client.baseUrl =
              IF EndsWith(BaseArg, "/api") THEN BaseArg ELSE BaseArg \o "/api"
        /\ ~EndsWith(BaseArg, "/api/api")
              => ~EndsWith(WithoutSuffix(client.baseUrl), "/api")

\* C11 witness: the client constructed with a trailing slash, 'https://h/',
\* holds 'https://h//api', which has one trailing '/api'
C11_Witness ==
    /\ client.exists
    /\ ctorArgs[1] = Str("https://h/")
    /\ client.baseUrl = "https://h//api"
    /\ ~EndsWith(WithoutSuffix(client.baseUrl), "/api")

\* C12: in every reachable state of a client, after construction and any
\* sequence of successful or failing setApiKey calls and dispatches, the
\* stored apiKey is null or a string that is non-empty after trimming: never
\* '', never whitespace only, never a non-string value.
C12_CredentialNeverPartiallyValid ==
    client.exists =>
        \/ client.apiKey = Null
        \/ /\ client.apiKey.t = "string"
           /\ Trim(client.apiKey.s) # ""

\* C12 witness: a client constructed with a key has had it cleared by
\* setApiKey and has since failed a call for the missing key
C12_Witness ==
    /\ client.exists
    /\ ctorArgs[2] = Str("key-1")
    /\ client.apiKey = Null
    /\ \E c \in CallSlots : calls[c].outcome = Throw(ApiKeyRequired)

\* an argument the credential validation accepts as a key
ValidKeyArg(apiKey) ==
    /\ apiKey.t = "string"
    /\ Len(Trim(apiKey.s)) >= 1
    /\ Len(Trim(apiKey.s)) <= 255

\* an argument that clears the credential
ClearingKeyArg(apiKey) == IsNullish(apiKey) \/ apiKey = Str("")

\* the credential after a constructor or setApiKey call with this argument
CredentialAfter(apiKey, before) ==
    IF ValidKeyArg(apiKey) THEN apiKey
    ELSE IF ClearingKeyArg(apiKey) THEN Null
    ELSE before

\* a step in which slot c leaves idle: a method was called
CallStarted(c) == calls[c].pc = "idle" /\ calls'[c].pc # "idle"

\* the arguments of an uploadFile() call pass its validation
UploadArgsValid(args) ==
    /\ args[1].t = "string" /\ Trim(args[1].s) # ""
    /\ args[2].t = "string" /\ Trim(args[2].s) # ""
    /\ Truthy(args[3])

ValidBaseArg(baseUrl) ==
    /\ baseUrl.t = "string"
    /\ Len(Trim(baseUrl.s)) >= 1
    /\ Len(Trim(baseUrl.s)) <= 255

Applied(name, args, result) ==
    [IdleCall EXCEPT !.kind = name, !.args = args, !.pc = "done",
                     !.outcome = IF result.ok THEN Return(result.v)
                                 ELSE Throw(result.err)]

\* the arguments the validators are applied to, by parameter
ValidatorArgs ==
    [id |->
        {Undef, Null, Num(1), Num(42), Num(0), Num(-1), Milli(1500), Milli(-500),
         NaN, Infinity, NegInfinity, Str("5"), Str("abc"), Str(""), Bool(TRUE),
         Arr(<<>>), Arr(<<Num(1)>>), Obj(<<>>)},
     number |->
        {Undef, Null, Num(1), Num(42), Num(0), Num(-1), Milli(1500), Milli(-500),
         NaN, Infinity, NegInfinity, Str("5"), Str("abc"), Str(""), Bool(TRUE),
         Arr(<<>>), Arr(<<Num(1)>>), Obj(<<>>),
         Milli(1), Num(5), Num(365), Num(366), Num(400), Milli(365500)},
     date |->
        {Undef, Null, Str(""), Num(0), NaN, Bool(FALSE), Num(123), Bool(TRUE),
         Obj(<<>>), Arr(<<>>), Str("2026-12-31"), Str("2026-12-31T10:20:30.000Z"),
         Str("2026-12-31T10:20:30"), Str("invalid-date"), Str("2026-13-01"),
         Str("2026-12-31T25:00:00Z"), Str("   "),
         DateObject("2026-01-02T03:04:05.678Z", TRUE), DateObject("", FALSE)},
     string |->
        {Undef, Null, Num(1), Bool(TRUE), Str(""), Str("   "), Str("a"), Str("ab"),
         Str("abc"), Str("abcd"), Str(" abc "), Str(" a "), Str("a<b"),
         Str(Repeat("a", DefaultMaxLength)), Str(Repeat("a", DefaultMaxLength + 1))},
     stringOptions |->
        {StringOptions(required, maxLength, minLength, sanitize) :
            required \in BOOLEAN, maxLength \in {3, DefaultMaxLength},
            minLength \in {NoMinLength, 2}, sanitize \in BOOLEAN},
     fieldName |-> {"Product ID", "Amount"},
     options |->
        {NumberOptions(Undef, Undef), NumberOptions(Num(0), Num(365)),
         NumberOptions(Milli(1), Undef), NumberOptions(Num(-1), Num(5))}]

\* the module is loaded and no client has been constructed
ModuleLoaded ==
    /\ ctorArgs = <<Undef, Undef>>
    /\ ctorError = ""
    /\ client = NoClient
    /\ calls = [c \in CallSlots |-> IdleCall]

\* the validator called name is applied to args and gives result
ValidatorCall(c, name, args, result) ==
    /\ calls[c].pc = "idle"
    /\ calls' = [calls EXCEPT ![c] = Applied(name, args, result)]
    /\ UNCHANGED <<ctorArgs, ctorError, client>>

NextValidators ==
    \/ \E c \in MainSlots, value \in ValidatorArgs.id,
          fieldName \in ValidatorArgs.fieldName :
          ValidatorCall(c, "validateId", <<value, Str(fieldName)>>,
                        validateId(value, fieldName))
    \/ \E c \in MainSlots, value \in ValidatorArgs.id,
          fieldName \in ValidatorArgs.fieldName :
          ValidatorCall(c, "validateOptionalId", <<value, Str(fieldName)>>,
                        validateOptionalId(value, fieldName))
    \/ \E c \in MainSlots, value \in ValidatorArgs.number,
          options \in ValidatorArgs.options :
          ValidatorCall(c, "validateNumber", <<value, Str("Amount"), options>>,
                        validateNumber(value, "Amount", options))
    \/ \E c \in MainSlots, value \in ValidatorArgs.number,
          options \in ValidatorArgs.options :
          ValidatorCall(c, "validateOptionalNumber", <<value, Str("Price"), options>>,
                        validateOptionalNumber(value, "Price", options))
    \/ \E c \in MainSlots, value \in ValidatorArgs.string,
          options \in ValidatorArgs.stringOptions :
          ValidatorCall(c, "validateString", <<value, Str("Username"), options>>,
                        validateString(value, "Username", options))
    \/ \E c \in MainSlots, value \in ValidatorArgs.date :
          ValidatorCall(c, "validateDate", <<value, Str("Done time")>>,
                        validateDate(value, "Done time"))
    \/ \E c \in MainSlots, value \in ValidatorArgs.date :
          ValidatorCall(c, "validateOptionalDate", <<value, Str("Done time")>>,
                        validateOptionalDate(value, "Done time"))
    \/ \E c \in MainSlots : Settle(c)

SpecValidators == ModuleLoaded /\ [][NextValidators]_vars

\* the message validateId fails with
NotPositiveInteger(call) == Throw(call.args[2].s \o " must be a positive integer")

\* C19: validateId(n, field) returns n unchanged for every integer n > 0 and
\* fails with '<field> must be a positive integer' for every other input (0,
\* negative numbers, non-integers, NaN, the infinities, numeric strings, null,
\* undefined, any non-number); validateOptionalId does the same except that
\* null and undefined yield null.
C19_IdAcceptsPositiveIntegersOnly ==
    \A c \in CallSlots :
        LET call == calls[c]
            value == call.args[1]
            positiveInteger == value.t = "number" /\ value.s = "" /\ value.n > 0
        IN
        /\ call.kind = "validateId" =>
              IF positiveInteger
              THEN call.outcome = Return(value)
              ELSE call.outcome = NotPositiveInteger(call)
        /\ call.kind = "validateOptionalId" =>
              IF value.t \in {"null", "undefined"}
              THEN call.outcome = Return(Null)
              ELSE IF positiveInteger
              THEN call.outcome = Return(value)
              ELSE call.outcome = NotPositiveInteger(call)

\* C19 witness: validateId applied to the numeric string '5' has thrown
C19_Witness ==
    \E c \in CallSlots :
        /\ calls[c].kind = "validateId"
        /\ calls[c].args = <<Str("5"), Str("Product ID")>>
        /\ calls[c].outcome = Throw("Product ID must be a positive integer")

\* C20 as stated: validateNumber(value, field, {min, max}) returns value
\* unchanged exactly when value is a finite number (not NaN, not an infinity)
\* with min <= value <= max, min defaulting to 0 and max to unbounded; a
\* non-number or NaN fails with '<field> must be a valid number', a number
\* below min with '<field> must be at least <min>', and a number not below
\* min but above max with '<field> must be at most <max>'.
C20_NumberReturnedIffFiniteInRange ==
    \A c \in CallSlots :
        LET call == calls[c]
            value == call.args[1]
            field == call.args[2].s
            min == IF call.args[3].min.t = "undefined" THEN Num(0) ELSE call.args[3].min
            max == call.args[3].max
            belowMin == NumLess(value, min)
            aboveMax == max.t # "undefined" /\ NumLess(max, value)
        IN
        call.kind = "validateNumber" =>
            /\ call.outcome.tag = "return" => call.outcome.value = value
            /\ call.outcome.tag = "return"
                  <=> (IsFiniteNumber(value) /\ ~belowMin /\ ~aboveMax)
            /\ (value.t # "number" \/ value.s = "NaN")
                  => call.outcome = Throw(field \o " must be a valid number")
            /\ (value.t = "number" /\ belowMin)
                  => call.outcome = Throw(field \o " must be at least " \o NumberText(min))
            /\ (value.t = "number" /\ ~belowMin /\ aboveMax)
                  => call.outcome = Throw(field \o " must be at most " \o NumberText(max))

\* what a date validator was applied to, and the label it was given
DateCalls(name) == {c \in CallSlots : calls[c].kind = name}

OpsArgs ==
    [apiKey |-> {Undef, Str("key-1")},
     id |-> {Num(1), Num(0), Milli(1500), Str("abc")},
     days |-> {Undef, Num(5), Num(-1), Num(400), Str("abc")},
     barcode |-> {Str("4006381333931"), Str("a/b"), Str(""), Str("   "), Num(123)},
     entity |-> {Str("products"), Str("a&b"), Str("")},
     objectId |-> {Num(1), Num(0), Str("o'1"), Str("")},
     settingKey |-> {Str("theme"), Str("a<b"), Str("")},
     group |-> {Str("pics"), Str("")},
     fileName |-> {Str("a.jpg"), Str("a/b"), Str("")},
     fileOptions |-> {Undef, Null, Obj(<<Entry("force_serve_as", Str("picture"))>>)},
     fileData |-> {FileData, Null},
     user |->
        {Null, Obj(<<>>), Obj(<<Entry("username", Str("test"))>>),
         Obj(<<Entry("username", Str("test<script>alert(\"x\")</script>")),
               Entry("password", Str("pass<word>&1")),
               Entry("first_name", Str("<img src=x>")),
               Entry("role", Str("<admin>"))>>),
         Obj(<<Entry("picture", Num(3)),
               Entry("username", Str("test")),
               Entry("password", Str("password123"))>>)},
     stockEntry |->
        {Null,
         Obj(<<Entry("amount", Num(5)), Entry("open", Bool(TRUE)),
               Entry("note", Str("Updated <stock> entry")), Entry("custom", Num(7))>>),
         Obj(<<Entry("note", Str("x")), Entry("amount", Milli(2500))>>),
         Obj(<<Entry("amount", Num(-1)), Entry("note", Str("x"))>>),
         Obj(<<Entry("custom_flag", Bool(FALSE)), Entry("extra", Null)>>)},
     stock |->
        {Obj(<<Entry("amount", Num(1))>>),
         Obj(<<Entry("amount", Str("abc"))>>),
         Obj(<<Entry("amount", Num(-1))>>),
         Obj(<<Entry("amount", NaN)>>),
         Obj(<<Entry("amount", Num(1)), Entry("best_before_date", Str("invalid-date"))>>),
         Obj(<<Entry("amount", Milli(2500)), Entry("best_before_date", Str("2026-12-31")),
               Entry("stock_label", Str("a&b")), Entry("tags", Arr(<<Str("x"), Num(2)>>))>>)},
     task |->
        {Undef, Null, Obj(<<Entry("notes", Str("Task completed"))>>),
         Obj(<<Entry("done_time", Str("2026-01-02")), Entry("notes", Str("done"))>>)},
     string |->
        {Null, Num(1), Str(""), Str("plain"), Str("test<script>alert(\"x\")</script>"),
         Str("O'Neil & Sons"), Str("a\\b > c")},
     stringOptions |->
        {StringOptions(TRUE, DefaultMaxLength, NoMinLength, sanitize) :
            sanitize \in BOOLEAN},
     array |->
        {Undef, Null, Num(0), Str(""), Str("not-an-array"), Obj(<<>>), Arr(<<>>),
         Arr(<<Num(1), Num(2)>>), Arr(<<Num(1), Str("abc"), Num(3)>>),
         Arr(<<Num(0), Str("x")>>), Arr(<<Num(1), Num(2), Milli(1500)>>)},
     arrayOptions |->
        {[required |-> required, itemValidator |-> itemValidator] :
            required \in BOOLEAN, itemValidator \in {"", "validateId", "productId"}},
     recipe |->
        {Undef, Null, Obj(<<>>),
         Obj(<<Entry("excluded_product_ids", Str("not-an-array"))>>),
         Obj(<<Entry("excluded_product_ids", Arr(<<Num(1), Str("abc"), Num(3)>>))>>),
         Obj(<<Entry("excluded_product_ids", Arr(<<Num(0), Str("x")>>))>>),
         Obj(<<Entry("servings", Num(2)),
               Entry("excluded_product_ids", Arr(<<Num(1), Num(2)>>))>>),
         Obj(<<Entry("excluded_product_ids", Arr(<<>>))>>),
         Obj(<<Entry("excluded_product_ids", Num(0)), Entry("servings", Num(2))>>)}]

\* an operation is called on the client: call is the slot after its first step
OperationStart(c, call) ==
    /\ client.exists
    /\ calls[c].pc = "idle"
    /\ calls' = [calls EXCEPT ![c] = call]
    /\ UNCHANGED <<ctorArgs, ctorError, client>>

InitOps == \E apiKey \in OpsArgs.apiKey : Construct(Str("https://h"), apiKey)

NextOps ==
    \/ \E c \in MainSlots, entryId \in OpsArgs.id, data \in OpsArgs.stockEntry :
          OperationStart(c, editStockEntry(client, entryId, data))
    \/ \E c \in MainSlots, dueSoonDays \in OpsArgs.days :
          OperationStart(c, getVolatileStock(client, dueSoonDays))
    \/ \E c \in MainSlots, productId \in OpsArgs.id :
          OperationStart(c, getProductDetails(client, productId))
    \/ \E c \in MainSlots, barcode \in OpsArgs.barcode :
          OperationStart(c, getProductByBarcode(client, barcode))
    \/ \E c \in MainSlots, productId \in OpsArgs.id, data \in OpsArgs.stock :
          OperationStart(c, addProductToStock(client, productId, data))
    \/ \E c \in MainSlots, entity \in OpsArgs.entity, objectId \in OpsArgs.objectId :
          OperationStart(c, getUserfields(client, entity, objectId))
    \/ \E c \in MainSlots, group \in OpsArgs.group, fileName \in OpsArgs.fileName,
          options \in OpsArgs.fileOptions :
          OperationStart(c, getFile(client, group, fileName, options))
    \/ \E c \in MainSlots, group \in OpsArgs.group, fileName \in OpsArgs.fileName,
          fileData \in OpsArgs.fileData :
          UploadStart(c, group, fileName, fileData)
    \/ \E c \in MainSlots, group \in OpsArgs.group, fileName \in OpsArgs.fileName :
          OperationStart(c, deleteFile(client, group, fileName))
    \/ \E c \in MainSlots, data \in OpsArgs.user :
          OperationStart(c, createUser(client, data))
    \/ \E c \in MainSlots, settingKey \in OpsArgs.settingKey :
          OperationStart(c, getUserSetting(client, settingKey))
    \/ \E c \in MainSlots, taskId \in OpsArgs.id, data \in OpsArgs.task :
          OperationStart(c, completeTask(client, taskId, data))
    \/ \E c \in MainSlots, recipeId \in OpsArgs.id, data \in OpsArgs.recipe :
          OperationStart(c, addRecipeProductsToShoppingList(client, recipeId, data))
    \/ \E c \in MainSlots, value \in OpsArgs.array, options \in OpsArgs.arrayOptions :
          ValidatorCall(c, "validateArray", <<value, Str("Excluded product IDs"), options>>,
                        validateArray(value, "Excluded product IDs", options))
    \/ \E c \in MainSlots, value \in OpsArgs.string, options \in OpsArgs.stringOptions :
          ValidatorCall(c, "validateString", <<value, Str("Username"), options>>,
                        validateString(value, "Username", options))
    \/ \E c \in MainSlots, response \in Responses : FetchResolve(c, response)
    \/ \E c \in MainSlots, message \in NetworkErrors : FetchReject(c, message)
    \/ \E c \in MainSlots, jsonData \in JsonBodies : JsonResolve(c, jsonData)
    \/ \E c \in MainSlots, message \in ParseErrors : JsonReject(c, message)
    \/ \E c \in MainSlots, textData \in TextBodies : TextResolve(c, textData)
    \/ \E c \in MainSlots, message \in TextErrors : TextReject(c, message)
    \/ \E c \in MainSlots : Settle(c)

SpecOps == InitOps /\ [][NextOps]_vars

\* what is wrong with a required string argument, or "" when nothing is
RequiredStringProblem(value, fieldName) ==
    IF value.t \notin {"string", "null", "undefined"}
    THEN fieldName \o " must be a string"
    ELSE IF value.t # "string" \/ Trim(value.s) = ""
    THEN fieldName \o " is required and must be non-empty"
    ELSE ""

\* what is wrong with an identifier argument, or "" when nothing is
IdProblem(value, fieldName) ==
    IF value.t = "number" /\ value.s = "" /\ value.n > 0
    THEN ""
    ELSE fieldName \o " must be a positive integer"

\* the first message of the sequence that is not ""
RECURSIVE FirstProblem(_)
FirstProblem(problems) ==
    IF Len(problems) = 0 THEN ""
    ELSE IF problems[1] # "" THEN problems[1]
    ELSE FirstProblem(Tail(problems))

\* the validation message the arguments of the call deserve, "" when the
\* arguments named here are valid
ValidationProblem(call) ==
    LET args == call.args IN
    CASE call.kind = "getProductDetails" -> IdProblem(args[1], "Product ID")
      [] call.kind = "getProductByBarcode" -> RequiredStringProblem(args[1], "Barcode")
      [] call.kind = "getUserSetting" -> RequiredStringProblem(args[1], "Setting key")
      [] call.kind = "getVolatileStock" ->
           IF args[1].t = "undefined" THEN ""
           ELSE IF args[1].t # "number" \/ args[1].s = "NaN"
           THEN "Due soon days must be a valid number"
           ELSE IF NumLess(args[1], Num(0)) THEN "Due soon days must be at least 0"
           ELSE IF NumLess(Num(365), args[1]) THEN "Due soon days must be at most 365"
           ELSE ""
      [] call.kind \in {"getFile", "deleteFile"} ->
           FirstProblem(<<RequiredStringProblem(args[1], "File group"),
                          RequiredStringProblem(args[2], "File name")>>)
      [] call.kind = "upload" ->
           FirstProblem(<<RequiredStringProblem(args[1], "File group"),
                          RequiredStringProblem(args[2], "File name"),
                          IF Truthy(args[3]) THEN "" ELSE "File data is required">>)
      [] call.kind = "createUser" ->
           IF args[1].t # "object" THEN "User data must be a non-null object"
           ELSE FirstProblem(<<RequiredStringProblem(GetProperty(args[1], "username"),
                                                     "Username"),
                               RequiredStringProblem(GetProperty(args[1], "password"),
                                                     "Password")>>)
      [] call.kind = "editStockEntry" -> IdProblem(args[1], "Entry ID")
      [] call.kind = "addProductToStock" -> IdProblem(args[1], "Product ID")
      [] call.kind = "completeTask" -> IdProblem(args[1], "Task ID")
      [] call.kind = "getUserfields" -> RequiredStringProblem(args[1], "Entity name")
      [] OTHER -> ""

\* C15: an operation called with an argument that violates its validator
\* fails with that validation message (the first in validation order) and
\* the transport is invoked zero times, whether or not a credential is
\* stored: a client without credential reports the validation failure, not
\* the missing API key (uploadFile checks group, file name and file data
\* before the API key).
C15_ValidationBeforeDispatch ==
    \A c \in CallSlots :
        ValidationProblem(calls[c]) # "" =>
            /\ calls[c].pc = "done"
            /\ calls[c].outcome = Throw(ValidationProblem(calls[c]))
            /\ calls[c].fetched = <<>>
            /\ calls[c].response = NoResponse

\* C15 witness: on a client without credential, uploadFile with an empty
\* group has failed with the group's validation message and no transport call
C15_Witness ==
    \E c \in CallSlots :
        /\ client.exists /\ client.apiKey = Null
        /\ calls[c].kind = "upload"
        /\ calls[c].args[1] = Str("")
        /\ calls[c].outcome = Throw("File group is required and must be non-empty")
        /\ calls[c].fetched = <<>>

\* the known-field set of a structured-payload operation
KnownFields(kind) ==
    CASE kind = "editStockEntry" ->
           {"amount", "best_before_date", "price", "open", "opened_date",
            "location_id", "shopping_location_id"}
      [] kind = "addProductToStock" ->
           {"amount", "price", "best_before_date", "location_id",
            "shopping_location_id", "transaction_type"}
      [] kind = "createUser" -> {"username", "password", "first_name", "last_name"}
      [] kind = "completeTask" -> {"done_time"}
      [] OTHER -> {}

\* the data argument of a structured-payload call
PayloadOf(call) ==
    LET data == IF call.kind = "createUser" THEN call.args[1] ELSE call.args[2] IN
    IF data.t = "undefined" THEN Obj(<<>>) ELSE data

\* the body text has the member "key": value
HasMember(body, key, value) ==
    Includes(body, JsonQuote(key) \o ":" \o JsonStringify(value))

\* a call of a structured-payload operation has invoked the transport
PayloadSent(call) ==
    /\ call.kind \in {"editStockEntry", "addProductToStock", "createUser", "completeTask"}
    /\ Len(call.fetched) = 1

\* C16: for the structured-payload operations, every field of the caller's
\* data that is not a known field of the operation is in the outgoing body
\* with its value unmodified, next to the validated known fields: a known
\* number or boolean field of the data is in the body with its value too, so
\* an unknown field neither replaces nor removes a known one.
C16_UnknownFieldsPassThrough ==
    \A c \in CallSlots :
        PayloadSent(calls[c]) =>
            LET data == PayloadOf(calls[c])
                body == calls[c].fetched[1].options.body
            IN
            /\ body.t = "string"
            /\ \A i \in 1..Len(data.a) :
                  LET e == data.a[i] IN
                  /\ e.k \notin KnownFields(calls[c].kind)
                        => HasMember(body.s, e.k, e.v)
                  /\ (e.k \in KnownFields(calls[c].kind) /\ e.v.t \in {"number", "boolean"})
                        => HasMember(body.s, e.k, e.v)

\* C16 witness: editStockEntry with amount, open and the unknown fields note
\* and custom has sent a body that has all four
C16_Witness ==
    \E c \in CallSlots :
        /\ PayloadSent(calls[c])
        /\ calls[c].kind = "editStockEntry"
        /\ calls[c].fetched[1].options.body
              = Str("{\"amount\":5,\"open\":true,"
                    \o "\"note\":\"Updated <stock> entry\",\"custom\":7}")

\* the URL string handed to the transport, before the query
SentHref(call) == call.fetched[1].url.href

\* C17 as stated: the opaque string arguments are embedded in the request
\* path exactly as the caller supplied them (barcode, entity name, setting
\* key, userfield object identifier, file group and file name), a password
\* is in the body unchanged, and so getFile, uploadFile and deleteFile with
\* the same group and file name address the same URL.
C17_OpaqueStringsVerbatim ==
    \A c \in CallSlots :
        LET call == calls[c]
            args == call.args
        IN
        Len(call.fetched) = 1 =>
            /\ call.kind = "getProductByBarcode"
                  => SentHref(call) = client.baseUrl \o "/stock/products/by-barcode/"
                                          \o args[1].s
            /\ call.kind = "getUserSetting"
                  => SentHref(call) = client.baseUrl \o "/user/settings/" \o args[1].s
            /\ call.kind = "getUserfields"
                  => SentHref(call) = client.baseUrl \o "/userfields/" \o args[1].s
                                          \o "/" \o ToStringJs(args[2])
            /\ call.kind \in {"getFile", "upload", "deleteFile"}
                  => SentHref(call) = client.baseUrl \o "/files/" \o args[1].s
                                          \o "/" \o args[2].s
            /\ call.kind = "createUser"
                  => HasMember(call.fetched[1].options.body.s, "password",
                               GetProperty(args[1], "password"))

\* the characters validator.escape replaces that can be written here
HtmlSpecial == {"&", "<", ">", "\"", "'", "/", "\\"}

\* the text with its entities turned back into characters
RECURSIVE Unescaped(_)
Unescaped(s) ==
    IF s = "" THEN ""
    ELSE IF StartsWith(s, "&amp;") THEN "&" \o Unescaped(SubSeq(s, 6, Len(s)))
    ELSE IF StartsWith(s, "&lt;") THEN "<" \o Unescaped(SubSeq(s, 5, Len(s)))
    ELSE IF StartsWith(s, "&gt;") THEN ">" \o Unescaped(SubSeq(s, 5, Len(s)))
    ELSE IF StartsWith(s, "&quot;") THEN "\"" \o Unescaped(SubSeq(s, 7, Len(s)))
    ELSE IF StartsWith(s, "&#x27;") THEN "'" \o Unescaped(SubSeq(s, 7, Len(s)))
    ELSE IF StartsWith(s, "&#x2F;") THEN "/" \o Unescaped(SubSeq(s, 7, Len(s)))
    ELSE IF StartsWith(s, "&#x5C;") THEN "\\" \o Unescaped(SubSeq(s, 7, Len(s)))
    ELSE CharAt(s, 1) \o Unescaped(Tail(s))

\* no HTML-special character is left but the '&' that starts an entity
FullyEscaped(s) ==
    \A i \in 1..Len(s) :
        /\ CharAt(s, i) \notin HtmlSpecial \ {"&"}
        /\ CharAt(s, i) = "&" =>
              \E entity \in {"&amp;", "&lt;", "&gt;", "&quot;", "&#x27;", "&#x2F;", "&#x5C;"} :
                  StartsWith(SubSeq(s, i, Len(s)), entity)

\* C18: validateString with sanitize = true returns the accepted input with
\* every HTML-special character replaced by its entity (so that
\* 'test<script>alert("x")</script>' becomes its fully escaped form) and with
\* sanitize = false returns the input unchanged; createUser therefore sends
\* the username and first name escaped and the password exactly as given.
C18_SanitizeEscapesOrLeaves ==
    \A c \in CallSlots :
        LET call == calls[c] IN
        /\ (call.kind = "validateString" /\ call.outcome.tag = "return") =>
              LET value == call.args[1]
                  result == call.outcome.value
              IN
              IF call.args[3].sanitize
              THEN /\ result.t = "string"
                   /\ FullyEscaped(result.s)
                   /\ Unescaped(result.s) = value.s
                   /\ value = Str("test<script>alert(\"x\")</script>")
                         => result = Str("test&lt;script&gt;alert(&quot;x&quot;)"
                                         \o "&lt;&#x2F;script&gt;")
              ELSE result = value
        /\ (call.kind = "createUser" /\ Len(call.fetched) = 1) =>
              LET data == call.args[1]
                  body == call.fetched[1].options.body.s
                  username == GetProperty(data, "username")
                  first_name == GetProperty(data, "first_name")
              IN
              /\ HasMember(body, "password", GetProperty(data, "password"))
              /\ \E sent \in {Str(Escape(username.s))} :
                    /\ FullyEscaped(sent.s)
                    /\ Unescaped(sent.s) = username.s
                    /\ HasMember(body, "username", sent)
              /\ first_name.t = "string" =>
                    \E sent \in {Str(Escape(first_name.s))} :
                        /\ FullyEscaped(sent.s)
                        /\ Unescaped(sent.s) = first_name.s
                        /\ HasMember(body, "first_name", sent)

\* C18 witness: createUser with a script in the username and special
\* characters in the password has sent the username escaped and the password
\* as given
C18_Witness ==
    \E c \in CallSlots :
        /\ calls[c].kind = "createUser"
        /\ Len(calls[c].fetched) = 1
        /\ GetProperty(calls[c].args[1], "password") = Str("pass<word>&1")
        /\ Includes(calls[c].fetched[1].options.body.s,
                    "\"username\":\"test&lt;script&gt;alert(&quot;x&quot;)"
                    \o "&lt;&#x2F;script&gt;\"")
        /\ Includes(calls[c].fetched[1].options.body.s,
                    "\"password\":\"pass<word>&1\"")

\* the indices of the elements of an array that validateId rejects
InvalidIds(array) == {i \in 1..Len(array.a) : IdProblem(array.a[i], "") # ""}

\* the least index of a non-empty set of indices
FirstIndex(indices) == CHOOSE i \in indices : \A j \in indices : i <= j

\* the label validateArray gives the element at (one-based) position i
ElementLabel(field, i) == field \o "[" \o ToString(i - 1) \o "]"

\* the calls of validateArray with an item validator that must have an array
ItemValidatedCalls ==
    {c \in CallSlots : /\ calls[c].kind = "validateArray"
                       /\ calls[c].args[3].required
                       /\ calls[c].args[3].itemValidator # ""}

\* the calls of addRecipeProductsToShoppingList with a valid recipe and an
\* array of excluded products
ExcludingCalls ==
    {c \in CallSlots :
        /\ calls[c].kind = "addRecipeProductsToShoppingList"
        /\ IdProblem(calls[c].args[1], "") = ""
        /\ calls[c].args[2].t = "object"
        /\ GetProperty(calls[c].args[2], "excluded_product_ids").t = "array"}

\* C22 as stated: validateArray with an item validator fails with '<field>
\* must be an array' for a non-array; it validates the elements in index
\* order and the failure for the first invalid element, at index i, carries
\* the label '<field>[i]'; nothing is returned then.  An invalid element of
\* excluded_product_ids makes addRecipeProductsToShoppingList fail in this
\* way, with no transport call.
C22_ElementFailureCarriesIndex ==
    /\ \A c \in ItemValidatedCalls :
          LET value == calls[c].args[1]
              field == calls[c].args[2].s
          IN calls[c].outcome =
                IF value.t # "array" THEN Throw(field \o " must be an array")
                ELSE IF InvalidIds(value) = {} THEN Return(value)
                ELSE Throw(IdProblem(value.a[FirstIndex(InvalidIds(value))],
                                     ElementLabel(field, FirstIndex(InvalidIds(value)))))
    /\ \A c \in ExcludingCalls :
          LET value == GetProperty(calls[c].args[2], "excluded_product_ids") IN
          InvalidIds(value) # {} =>
              /\ calls[c].pc = "done"
              /\ calls[c].fetched = <<>>
              /\ calls[c].outcome =
                    Throw(IdProblem(value.a[FirstIndex(InvalidIds(value))],
                                    ElementLabel("Excluded product IDs",
                                                 FirstIndex(InvalidIds(value)))))

\* C22, amended: validateArray hands the item validator the element and the
\* label '<field>[i]', in index order, and the first failure propagates
\* unchanged; the failure names that label only when the item validator uses
\* the label it is given.  The item validator of
\* addRecipeProductsToShoppingList ignores it: an invalid element makes the
\* operation fail with 'Product ID must be a positive integer', with no
\* transport call.
C22_ElementFailureIsTheItemValidators ==
    /\ \A c \in ItemValidatedCalls :
          LET value == calls[c].args[1]
              field == calls[c].args[2].s
              first == FirstIndex(InvalidIds(value))
          IN calls[c].outcome =
                IF value.t # "array" THEN Throw(field \o " must be an array")
                ELSE IF InvalidIds(value) = {} THEN Return(value)
                ELSE IF calls[c].args[3].itemValidator = "validateId"
                THEN Throw(IdProblem(value.a[first], ElementLabel(field, first)))
                ELSE Throw(IdProblem(value.a[first], "Product ID"))
    /\ \A c \in ExcludingCalls :
          LET value == GetProperty(calls[c].args[2], "excluded_product_ids") IN
          InvalidIds(value) # {} =>
              /\ calls[c].pc = "done"
              /\ calls[c].fetched = <<>>
              /\ calls[c].response = NoResponse
              /\ calls[c].outcome = Throw("Product ID must be a positive integer")

\* addRecipeProductsToShoppingList(1, {excluded_product_ids: [1, 'abc', 3]})
\* has failed with the item validator's message and no transport call
C22_Witness ==
    \E c \in ExcludingCalls :
        /\ GetProperty(calls[c].args[2], "excluded_product_ids")
              = Arr(<<Num(1), Str("abc"), Num(3)>>)
        /\ calls[c].outcome = Throw("Product ID must be a positive integer")
        /\ calls[c].fetched = <<>>

\* an uploadFile() call with valid arguments that found a credential and has ended
UploadDone(call) ==
    /\ call.kind = "upload" /\ call.pc = "done"
    /\ UploadArgsValid(call.args)
    /\ call.outcome # Throw(ApiKeyRequired)

\* C23 as stated: uploadFile with valid arguments and a credential issues
\* exactly one PUT whose body is the file payload and whose headers carry the
\* credential; a 2xx response makes it return exactly { success: true }; for
\* every other response, whatever its content-type, it reads the body as
\* JSON and fails with the prefixed error_message when there is one and with
\* the prefixed 'HTTP error! status: <status>' otherwise.
C23_UploadFallsBackToStatus ==
    \A c \in CallSlots :
        LET call == calls[c]
            errorMessage == IF call.read.tag = "json"
                            THEN GetProperty(call.read.value, "error_message")
                            ELSE Undef
        IN UploadDone(call) =>
            /\ Len(call.fetched) = 1
            /\ call.fetched[1].options.method = "PUT"
            /\ call.fetched[1].options.hasBody
            /\ call.fetched[1].options.body = call.args[3]
            /\ call.fetched[1].options.headers = <<Entry("GROCY-API-KEY", client.apiKey)>>
            /\ HasResponse(call) =>
                  IF ResponseOk(call.response)
                  THEN /\ call.outcome = Return(SuccessMarker)
                       /\ call.jsonReads = 0 /\ call.textReads = 0
                  ELSE /\ call.jsonReads = 1 /\ call.textReads = 0
                       /\ call.outcome =
                             IF Truthy(errorMessage)
                             THEN Throw(FailurePrefix \o ToStringJs(errorMessage))
                             ELSE Throw(FailurePrefix \o HttpError(call.response.status))

\* the call invoked the transport and has failed
FailedAfterFetch(call) ==
    /\ call.kind \in {"request", "upload"}
    /\ call.pc = "done" /\ call.fetched # <<>>
    /\ call.outcome.tag = "throw"

\* C24: when the transport call of request() or uploadFile() fails with an
\* error of message m, the call fails with exactly 'Grocy API request
\* failed: ' followed by m, without reading a body; every failure after the
\* transport was invoked, HTTP-level or network, is an error with that same
\* prefix, so the two differ in the message text only.
C24_TransportFailureIsWrapped ==
    /\ [][\A c \in CallSlots : \A m \in NetworkErrors \cup {"connect ECONNREFUSED"} :
             FetchReject(c, m) =>
                /\ calls'[c].pc = "done"
                /\ calls'[c].outcome = Throw("Grocy API request failed: " \o m)
                /\ calls'[c].fetched = calls[c].fetched
                /\ calls'[c].response = NoResponse
                /\ calls'[c].jsonReads = 0 /\ calls'[c].textReads = 0]_vars
    /\ [](\A c \in CallSlots :
             FailedAfterFetch(calls[c]) =>
                StartsWith(calls[c].outcome.message, "Grocy API request failed: "))

\* an uploadFile() whose transport call was refused has failed with the
\* wrapped message of the network error
C24_Witness ==
    \E c \in CallSlots :
        /\ FailedAfterFetch(calls[c])
        /\ calls[c].kind = "upload"
        /\ calls[c].response = NoResponse
        /\ calls[c].outcome = Throw("Grocy API request failed: connect ECONNREFUSED")

\* C25 as stated: every response with a non-2xx status makes request() end
\* in a failure, never in a success, whatever the content-type; the message
\* is the prefix followed by the server's error_message when the response is
\* JSON and carries one, and by 'HTTP error! status: <status>' otherwise.
C25_NonOkStatusAlwaysFails ==
    \A c \in CallSlots :
        LET call == calls[c]
            errorMessage == IF IsJsonType(call.response) /\ call.read.tag = "json"
                            THEN GetProperty(call.read.value, "error_message")
                            ELSE Undef
        IN (RequestDone(call) /\ HasResponse(call) /\ ~ResponseOk(call.response)) =>
              call.outcome =
                 IF Truthy(errorMessage)
                 THEN Throw(FailurePrefix \o ToStringJs(errorMessage))
                 ELSE Throw(FailurePrefix \o HttpError(call.response.status))

\* the response is not a 204 and declares neither JSON nor a calendar
IsOpaqueType(response) ==
    /\ response.status # 204
    /\ ~IsJsonType(response)
    /\ ~IsCalendarType(response)

\* C26: for a response whose status is not 204 and whose content-type is
\* absent or contains neither 'application/json' nor 'text/calendar',
\* request() ends as soon as the response arrives: with a 2xx status it
\* returns { success: true, response } carrying that transport response,
\* with any other status it fails with 'Grocy API request failed: HTTP
\* error! status: <status>'; neither json() nor text() is invoked.
C26_OpaqueResponseIsNotRead ==
    \A c \in CallSlots :
        LET call == calls[c] IN
        (call.kind = "request" /\ HasResponse(call) /\ IsOpaqueType(call.response)) =>
            /\ call.pc = "done"
            /\ call.jsonReads = 0 /\ call.textReads = 0 /\ call.read = NoRead
            /\ call.outcome =
                  IF ResponseOk(call.response)
                  THEN Return(Obj(<<Entry("success", Bool(TRUE)),
                                    Entry("response", ResponseValue(call.response))>>))
                  ELSE Throw("Grocy API request failed: HTTP error! status: "
                             \o ToString(call.response.status))

\* a request() answered with status 400 and content-type text/plain has
\* failed with the generic status message without reading the body
C26_Witness ==
    \E c \in CallSlots :
        /\ calls[c].kind = "request"
        /\ calls[c].response = [status |-> 400, contentType |-> Str("text/plain")]
        /\ calls[c].jsonReads = 0 /\ calls[c].textReads = 0
        /\ calls[c].outcome = Throw("Grocy API request failed: HTTP error! status: 400")

\* the call is suspended at an await
InFlight(call) == call.pc \in {"awaitFetch", "awaitJson", "awaitText"}

\* the credential the call handed to the transport
SentCredential(call) == PairsNamed(call.fetched[1].options.headers, "GROCY-API-KEY")[1].v

\* C27: a dispatch sends the credential stored at the step it starts; while
\* it is suspended at an await, a setApiKey step (also setApiKey(null))
\* changes neither the request it sent nor anything else of the call, and
\* the call never ends with the API-key-required message; a dispatch that
\* starts after the setter sends the new value.
C27_InFlightCallKeepsItsCredential ==
    [][\A c \in CallSlots :
          /\ Dispatched(c) => SentCredential(calls'[c]) = client.apiKey
          /\ InFlight(calls[c]) =>
                /\ calls'[c].fetched = calls[c].fetched
                /\ calls'[c].outcome # Throw(ApiKeyRequired)
                /\ client' # client => calls'[c] = calls[c]]_vars

\* a request() is waiting for its body with the credential key-1 in the
\* header it sent, after setApiKey(null) has cleared the stored credential
C27_Witness ==
    \E c \in CallSlots :
        /\ calls[c].kind = "request"
        /\ calls[c].pc = "awaitJson"
        /\ SentCredential(calls[c]) = Str("key-1")
        /\ client.apiKey = Null

\* two calls of the same method with the same arguments that handed the
\* same credential to the transport
SameDispatch(a, b) ==
    /\ a.kind \in {"request", "upload"} /\ a.kind = b.kind /\ a.args = b.args
    /\ a.fetched # <<>> /\ b.fetched # <<>>
    /\ SentCredential(a) = SentCredential(b)

\* C28: concurrent dispatches on one client do not interfere.  Under every
\* interleaving, a step changes at most one call and a step of a call
\* leaves the client alone; the request of a call is determined by its
\* arguments and the credential at its start, and its outcome by these and
\* its own transport response and body (two calls that agree on them agree
\* on the request and on the outcome, whatever ran in between); baseUrl
\* never changes and a dispatch leaves apiKey unchanged.
C28_ConcurrentCallsDoNotInterfere ==
    /\ [][/\ \A c, d \in CallSlots :
                (c # d /\ calls'[c] # calls[c]) => calls'[d] = calls[d]
          /\ calls' # calls => client' = client
          /\ client'.baseUrl = client.baseUrl]_vars
    /\ [](\A c, d \in CallSlots :
             SameDispatch(calls[c], calls[d]) =>
                /\ calls[c].fetched = calls[d].fetched
                /\ (/\ calls[c].pc = "done" /\ calls[d].pc = "done"
                    /\ HasResponse(calls[c])
                    /\ calls[c].response = calls[d].response
                    /\ calls[c].read = calls[d].read)
                   => calls[c].outcome = calls[d].outcome)

\* two request() calls with the same arguments and credential overlapped,
\* got different responses and ended differently, each by its own response
C28_Witness ==
    /\ SameDispatch(calls["c1"], calls["c2"])
    /\ calls["c1"].kind = "request"
    /\ calls["c1"].pc = "done" /\ calls["c2"].pc = "done"
    /\ calls["c1"].response.status = 200 /\ calls["c2"].response.status = 400
    /\ calls["c1"].outcome.tag = "return" /\ calls["c2"].outcome.tag = "throw"

\* C29 as stated: validateString accepts a string only when its length is
\* within [minLength, maxLength].  For a required value: whatever it returns
\* with sanitize=false is the caller's string, of a length of at least
\* minLength and at most maxLength; a non-string fails with '<field> must be
\* a string', a missing, empty or whitespace-only value with '<field> is
\* required and must be non-empty', a shorter string with '<field> must be at
\* least <minLength> characters' and a longer one with '<field> must not
\* exceed <maxLength> characters'.
C29_ReturnedLengthWithinLimits ==
    \A c \in CallSlots :
        LET call == calls[c]
            value == call.args[1]
            field == call.args[2].s
            options == call.args[3]
            tooShort == options.minLength # NoMinLength
                        /\ Len(value.s) < options.minLength
        IN (call.kind = "validateString" /\ options.required) =>
            /\ (call.outcome.tag = "return" /\ ~options.sanitize) =>
                  /\ call.outcome.value = value
                  /\ IsString(value)
                  /\ Len(value.s) <= options.maxLength
                  /\ ~tooShort
            /\ (~IsNullish(value) /\ ~IsString(value))
                  => call.outcome = Throw(field \o " must be a string")
            /\ (IsNullish(value) \/ (IsString(value) /\ Trim(value.s) = ""))
                  => call.outcome = Throw(field \o " is required and must be non-empty")
            /\ (IsString(value) /\ Trim(value.s) # "" /\ tooShort)
                  => call.outcome = Throw(field \o " must be at least "
                                          \o ToString(options.minLength) \o " characters")
            /\ (IsString(value) /\ Trim(value.s) # "" /\ ~tooShort
                   /\ Len(value.s) > options.maxLength)
                  => call.outcome = Throw(field \o " must not exceed "
                                          \o ToString(options.maxLength) \o " characters")

\* the body text has a member named key
HasKey(body, key) == Includes(body, JsonQuote(key) \o ":")

\* C30: for every structured-payload operation called with valid data, the
\* JSON body sent has exactly the fields the caller supplied with a value
\* other than undefined: no known field of the operation that the caller left
\* out is in the body (with null or any other value), every supplied field is
\* in it, and the body is the JSON serialization of the caller's data; the
\* caller's data is the same object after the call as before it.
C30_BodyIsTheCallersData ==
    /\ [](\A c \in CallSlots :
            PayloadSent(calls[c]) =>
                LET data == PayloadOf(calls[c])
                    body == calls[c].fetched[1].options.body
                    supplied == {data.a[i].k : i \in {j \in 1..Len(data.a) :
                                                        data.a[j].v.t # "undefined"}}
                IN
                /\ body.t = "string"
                /\ \A key \in KnownFields(calls[c].kind) \ supplied :
                      ~HasKey(body.s, key)
                /\ \A key \in supplied : HasKey(body.s, key)
                /\ body.s = JsonStringify(data))
    /\ [][\A c \in CallSlots :
            (PayloadSent(calls[c]) /\ calls'[c].pc # "idle")
                => calls'[c].args = calls[c].args]_vars

=============================================================================
